---------------------------- MODULE Spec2Model ----------------------------
(***************************************************************************)
(* Model of the Polymarket data-lake pipeline:                             *)
(*   - PolymarketExtractor.fetch_page / extract_endpoint_parallel          *)
(*     (src/src/extractor/extractor_polymarket.py)                         *)
(*   - WarehouseLoader (src/src/warehouse/loader_NeonDB.py)                *)
(*   - run_loader / main (src/main.py)                                     *)
(***************************************************************************)
EXTENDS Integers, Sequences, FiniteSets, TLC

(***************************************************************************)
(* Bounds of the model.                                                    *)
(***************************************************************************)
MaxRecords == 4
MaxThreads == 2
MaxPageSize == 2

(***************************************************************************)
(* The paginated fetcher.                                                  *)
(***************************************************************************)
VARIABLES
    total,          \* T: size of the server's collection for the endpoint
    threads,        \* argument threads of extract_endpoint_parallel
    page_size,      \* argument page_size
    all_data,       \* local all_data (sequence of records)
    offset,         \* local offset
    batch_num,      \* local batch_num
    batch_data,     \* local batch_data of the current round
    futures,        \* offset -> [st, data]: the round's futures
    fpc,            \* position in extract_endpoint_parallel
    requested,      \* history: sequence of the rounds' offset lists
    failedOffsets,  \* history: offsets whose request failed
    roundLens       \* history: len(batch_data) of every completed round

fvars == <<total, threads, page_size, all_data, offset, batch_num, batch_data,
           futures, fpc, requested, failedOffsets, roundLens>>

(***************************************************************************)
(* The relational loader and its callers.                                  *)
(***************************************************************************)
VARIABLES
    snapshot,       \* datalake/raw: [markets, events, series] Delta tables
    dbC,            \* the warehouse: committed tables
    dbW,            \* the tables as the open connection sees them
    conn,           \* WarehouseLoader.conn: "none", "open" or "closed"
    lpc,            \* position in run_loader / load_all
    df,             \* load_all local df (cleaned gaming markets)
    events_df,      \* load_all local events_df
    series_df,      \* load_all local series_df
    exc,            \* an exception is propagating out of load_all
    exit_code,      \* what main returns after run_loader ("none" before)
    hist            \* history of calls and their outcomes

lvars == <<snapshot, dbC, dbW, conn, lpc, df, events_df, series_df, exc,
           exit_code, hist>>

(***************************************************************************)
(* The cleaner's functions, the validator and the orchestrator.            *)
(***************************************************************************)
VARIABLES
    call,           \* the call of a function on raw input: [fn, arg, result]
    vdb,            \* the tables that WarehouseValidator queries
    vpc,            \* validate_data_integrity: 0 before the call, then the
                    \* number of the next check, then VReturn, VDone
    all_valid,      \* local all_valid
    vtx,            \* the validator's transaction: "ok" or "aborted"
    checks,         \* history: the outcome of every check that ran
    mpc,            \* position in main
    phases          \* history: the outcome of every phase of main

xvars == <<call, vdb, vpc, all_valid, vtx, checks, mpc, phases>>

vars == <<fvars, lvars, xvars>>

Min(a, b) == IF a < b THEN a ELSE b

Range(s) == {s[i] : i \in 1..Len(s)}

\* The server's answer to GET ?limit=&offset= : the records at positions
\* off .. off+limit-1 of a fixed collection of T records (a record is
\* identified by its position).
ServerPage(T, off, limit) ==
    [i \in 1..(IF off >= T THEN 0 ELSE Min(limit, T - off)) |-> off + i - 1]

Outcomes == {"ok", "network", "http", "json"}

\* fetch_page: the decoded list on success; [] on a RequestException
\* (network error, timeout, non-2xx through raise_for_status) or a
\* JSONDecodeError.
fetch_page(outcome, T, off, limit) ==
    IF outcome = "ok" THEN ServerPage(T, off, limit) ELSE <<>>

\* offsets = [offset + (i * page_size) for i in range(threads)]
RoundOffsetsFromOne(off, n, ps) == [i \in 1..n |-> off + i * ps]
RoundOffsets(off, n, ps) == [i \in 1..n |-> off + (i - 1) * ps]

\* offset += threads * page_size
NextOffsetOnePage(off, n, ps) == off + ps
NextOffset(off, n, ps) == off + n * ps

\* if len(batch_data) < threads * page_size: break
ExhaustedNever(len, n, ps) == FALSE
Exhausted(len, n, ps) == len < n * ps

\* Top of the while loop: the N requests of a round are submitted.
SubmitRound ==
    /\ fpc = "loop"
    /\ LET offs == RoundOffsets(offset, threads, page_size) IN
        /\ futures' = [o \in Range(offs) |-> [st |-> "running", data |-> <<>>]]
        /\ requested' = Append(requested, offs)
    /\ batch_data' = <<>>
    /\ fpc' = "collect"
    /\ UNCHANGED <<total, threads, page_size, all_data, offset, batch_num,
                   failedOffsets, roundLens>>
    /\ UNCHANGED <<lvars, xvars>>

\* A worker's fetch_page call returns.
FetchPageReturns ==
    /\ fpc = "collect"
    /\ \E o \in DOMAIN futures, outcome \in Outcomes :
        /\ futures[o].st = "running"
        /\ futures' = [futures EXCEPT ![o] =
               [st |-> "finished",
                data |-> fetch_page(outcome, total, o, page_size)]]
        /\ failedOffsets' = IF outcome = "ok" THEN failedOffsets
                            ELSE failedOffsets \cup {o}
    /\ UNCHANGED <<total, threads, page_size, all_data, offset, batch_num,
                   batch_data, fpc, requested, roundLens>>
    /\ UNCHANGED <<lvars, xvars>>

\* as_completed yields a finished future; its data is appended to batch_data.
AsCompleted ==
    /\ fpc = "collect"
    /\ \E o \in DOMAIN futures :
        /\ futures[o].st = "finished"
        /\ futures' = [futures EXCEPT ![o].st = "consumed"]
        /\ batch_data' = batch_data \o futures[o].data
    /\ UNCHANGED <<total, threads, page_size, all_data, offset, batch_num,
                   fpc, requested, failedOffsets, roundLens>>
    /\ UNCHANGED <<lvars, xvars>>

\* "for future in as_completed(futures)" ends, and the with block of the
\* ThreadPoolExecutor is left, when every future of the round has been
\* yielded.
RoundCompleteFirstResult(f) == \E o \in DOMAIN f : f[o].st = "consumed"
RoundComplete(f) == \A o \in DOMAIN f : f[o].st = "consumed"

\* After the for loop over as_completed: the break tests and the append.
EndRound ==
    /\ fpc = "collect"
    /\ RoundComplete(futures)
    /\ roundLens' = Append(roundLens, Len(batch_data))
    /\ IF batch_data = <<>>
       THEN /\ fpc' = "done"
            /\ UNCHANGED <<all_data, offset, batch_num>>
       ELSE /\ all_data' = all_data \o batch_data
            /\ offset' = NextOffset(offset, threads, page_size)
            /\ batch_num' = batch_num + 1
            /\ fpc' = IF Exhausted(Len(batch_data), threads, page_size)
                      THEN "done" ELSE "loop"
    /\ UNCHANGED <<total, threads, page_size, batch_data, futures, requested,
                   failedOffsets>>
    /\ UNCHANGED <<lvars, xvars>>


(***************************************************************************)
(* Values.  A string cell is a string, NULL for None/NaN/NaT; an integer   *)
(* cell (a SERIAL key or a reference to one) is a positive integer, NoId   *)
(* for NULL.                                                               *)
(***************************************************************************)
NULL == "<null>"
NoId == 0

\* Python "x in s" for strings.
Contains(hay, needle) ==
    \E i \in 1..(Len(hay) - Len(needle) + 1) :
        SubSeq(hay, i, i + Len(needle) - 1) = needle

UpperChars == "ABCDEFGHIJKLMNOPQRSTUVWXYZÍ"
LowerChars == "abcdefghijklmnopqrstuvwxyzí"

\* The character at the place of c in the alphabet to, when c is in from.
MapChar(c, from, to) ==
    IF \E i \in 1..Len(from) : SubSeq(from, i, i) = c
    THEN LET i == CHOOSE k \in 1..Len(from) : SubSeq(from, k, k) = c
         IN  SubSeq(to, i, i)
    ELSE c

LowerChar(c) == MapChar(c, UpperChars, LowerChars)

\* str.lower()
RECURSIVE Lower(_)
Lower(s) ==
    IF Len(s) = 0 THEN ""
    ELSE LowerChar(SubSeq(s, 1, 1)) \o Lower(SubSeq(s, 2, Len(s)))

\* str.upper()
RECURSIVE Upper(_)
Upper(s) ==
    IF Len(s) = 0 THEN ""
    ELSE MapChar(SubSeq(s, 1, 1), LowerChars, UpperChars)
         \o Upper(SubSeq(s, 2, Len(s)))

(***************************************************************************)
(* The warehouse: PostgreSQL tables under the DDL of create_schema_gaming. *)
(* A table is [exists, rows, serial]; rows keep their insertion order.     *)
(***************************************************************************)
ManagedTables ==
    <<"fact_evento_tag_gaming", "fact_mercado_evento_gaming",
      "fact_metricas_gaming", "dim_mercado_gaming", "dim_evento_gaming",
      "dim_tag_gaming", "dim_serie_gaming", "dim_videojuego", "dim_fecha">>

TableNames == Range(ManagedTables)

NoTable == [exists |-> FALSE, rows |-> <<>>, serial |-> 0]
EmptyTable == [exists |-> TRUE, rows |-> <<>>, serial |-> 0]

EmptyDB == [t \in TableNames |-> NoTable]

\* SERIAL PRIMARY KEY column of a table ("" when it has none).
SerialCol(t) ==
    CASE t = "dim_fecha" -> "fecha_id"
      [] t = "dim_videojuego" -> "videojuego_id"
      [] t = "dim_tag_gaming" -> "tag_id"
      [] t = "fact_mercado_evento_gaming" -> "mercado_evento_id"
      [] t = "fact_evento_tag_gaming" -> "evento_tag_id"
      [] t = "fact_metricas_gaming" -> "metrica_id"
      [] OTHER -> ""

\* Integer-typed columns (NULL is NoId there).
IntCols ==
    {"fecha_id", "videojuego_id", "tag_id", "mercado_evento_id",
     "evento_tag_id", "metrica_id"}

IsNullCell(col, v) == IF col \in IntCols THEN v = NoId ELSE v = NULL

\* PRIMARY KEY and UNIQUE constraints of a table, each a set of columns.
UniqueKeys(t) ==
    CASE t = "dim_fecha" -> {{"fecha_id"}, {"fecha"}}
      [] t = "dim_videojuego" -> {{"videojuego_id"}, {"nombre_juego"}}
      [] t = "dim_serie_gaming" -> {{"serie_id"}}
      [] t = "dim_evento_gaming" -> {{"evento_id"}}
      [] t = "dim_tag_gaming" -> {{"tag_id"}, {"tag_nombre"}}
      [] t = "dim_mercado_gaming" -> {{"mercado_id"}}
      [] t = "fact_mercado_evento_gaming" ->
             {{"mercado_evento_id"}, {"mercado_id", "evento_id"}}
      [] t = "fact_evento_tag_gaming" ->
             {{"evento_tag_id"}, {"evento_id", "tag_id"}}
      [] t = "fact_metricas_gaming" -> {{"metrica_id"}}

\* NOT NULL columns (primary keys included).
NotNullCols(t) ==
    CASE t = "dim_fecha" -> {"fecha_id", "fecha"}
      [] t = "dim_videojuego" -> {"videojuego_id", "nombre_juego"}
      [] t = "dim_serie_gaming" -> {"serie_id"}
      [] t = "dim_evento_gaming" -> {"evento_id"}
      [] t = "dim_tag_gaming" -> {"tag_id", "tag_nombre"}
      [] t = "dim_mercado_gaming" -> {"mercado_id"}
      [] t = "fact_mercado_evento_gaming" -> {"mercado_evento_id"}
      [] t = "fact_evento_tag_gaming" -> {"evento_tag_id"}
      [] t = "fact_metricas_gaming" -> {"metrica_id"}

\* REFERENCES clauses: [col, ref, refcol].
ForeignKeys(t) ==
    CASE t = "dim_evento_gaming" ->
             {[col |-> "serie_id", ref |-> "dim_serie_gaming", refcol |-> "serie_id"]}
      [] t = "dim_mercado_gaming" ->
             {[col |-> "videojuego_id", ref |-> "dim_videojuego", refcol |-> "videojuego_id"]}
      [] t = "fact_mercado_evento_gaming" ->
             {[col |-> "mercado_id", ref |-> "dim_mercado_gaming", refcol |-> "mercado_id"],
              [col |-> "evento_id", ref |-> "dim_evento_gaming", refcol |-> "evento_id"]}
      [] t = "fact_evento_tag_gaming" ->
             {[col |-> "evento_id", ref |-> "dim_evento_gaming", refcol |-> "evento_id"],
              [col |-> "tag_id", ref |-> "dim_tag_gaming", refcol |-> "tag_id"]}
      [] t = "fact_metricas_gaming" ->
             {[col |-> "mercado_id", ref |-> "dim_mercado_gaming", refcol |-> "mercado_id"],
              [col |-> "fecha_id", ref |-> "dim_fecha", refcol |-> "fecha_id"]}
      [] OTHER -> {}

\* Two rows collide on a unique key: equal and non-null on all its columns.
SameKey(key, r1, r2) ==
    \A c \in key : r1[c] = r2[c] /\ ~IsNullCell(c, r1[c])

Conflicts(tabs, t, row) ==
    {key \in UniqueKeys(t) :
        \E i \in 1..Len(tabs[t].rows) : SameKey(key, tabs[t].rows[i], row)}

FkHolds(tabs, t, row) ==
    \A fk \in ForeignKeys(t) :
        \/ IsNullCell(fk.col, row[fk.col])
        \/ /\ tabs[fk.ref].exists
           /\ \E i \in 1..Len(tabs[fk.ref].rows) :
                  tabs[fk.ref].rows[i][fk.refcol] = row[fk.col]

NoOnConflict == {"<none>"}

\* A row as the INSERT stores it: the SERIAL column takes the next value.
WithSerial(tabs, t, row) ==
    IF SerialCol(t) = "" THEN row
    ELSE [c \in (DOMAIN row) \cup {SerialCol(t)} |->
             IF c = SerialCol(t) THEN tabs[t].serial + 1 ELSE row[c]]

\* INSERT INTO t VALUES rows [ON CONFLICT (target) DO NOTHING].
\* target: the conflict target, a set of columns; {} for a bare ON CONFLICT
\* DO NOTHING (any unique violation is skipped); NoOnConflict for an INSERT
\* without ON CONFLICT (any unique violation raises).
\* The result is [ok, tabs]: ok = FALSE when the statement raises.
RECURSIVE InsertRows(_, _, _, _)
InsertRows(tabs, t, rows, target) ==
    IF ~tabs[t].exists THEN [ok |-> FALSE, tabs |-> tabs]
    ELSE IF rows = <<>> THEN [ok |-> TRUE, tabs |-> tabs]
    ELSE
      LET row  == WithSerial(tabs, t, Head(rows))
          used == IF SerialCol(t) = "" THEN tabs
                  ELSE [tabs EXCEPT ![t].serial = @ + 1]
          hit  == Conflicts(tabs, t, row)
      IN
      IF \E c \in NotNullCols(t) : IsNullCell(c, row[c])
      THEN [ok |-> FALSE, tabs |-> tabs]
      ELSE IF hit # {}
      THEN IF target = {} \/ hit = {target}
           THEN InsertRows(used, t, Tail(rows), target)
           ELSE [ok |-> FALSE, tabs |-> tabs]
      ELSE IF ~FkHolds(tabs, t, row)
      THEN [ok |-> FALSE, tabs |-> tabs]
      ELSE InsertRows([used EXCEPT ![t].rows = Append(@, row)],
                      t, Tail(rows), target)

\* SELECT col FROM t, as the set the code builds from fetchall().
SelectCol(tabs, t, col) ==
    {tabs[t].rows[i][col] : i \in 1..Len(tabs[t].rows)}

\* The statements of create_schema_gaming, in order.
SchemaStatementsKeepMetricas ==
    [i \in 1..2 |-> [op |-> "drop", t |-> ManagedTables[i]]]
    \o [i \in 1..6 |-> [op |-> "drop", t |-> ManagedTables[i + 3]]]
    \o <<[op |-> "create", t |-> "dim_fecha"],
         [op |-> "create", t |-> "dim_videojuego"],
         [op |-> "seed", t |-> "dim_videojuego"],
         [op |-> "create", t |-> "dim_serie_gaming"],
         [op |-> "create", t |-> "dim_evento_gaming"],
         [op |-> "create", t |-> "dim_tag_gaming"],
         [op |-> "create", t |-> "dim_mercado_gaming"],
         [op |-> "create", t |-> "fact_mercado_evento_gaming"],
         [op |-> "create", t |-> "fact_evento_tag_gaming"],
         [op |-> "create_if_not_exists", t |-> "fact_metricas_gaming"]>>
SchemaStatements ==
    [i \in 1..Len(ManagedTables) |-> [op |-> "drop", t |-> ManagedTables[i]]]
    \o <<[op |-> "create", t |-> "dim_fecha"],
         [op |-> "create", t |-> "dim_videojuego"],
         [op |-> "seed", t |-> "dim_videojuego"],
         [op |-> "create", t |-> "dim_serie_gaming"],
         [op |-> "create", t |-> "dim_evento_gaming"],
         [op |-> "create", t |-> "dim_tag_gaming"],
         [op |-> "create", t |-> "dim_mercado_gaming"],
         [op |-> "create", t |-> "fact_mercado_evento_gaming"],
         [op |-> "create", t |-> "fact_evento_tag_gaming"],
         [op |-> "create", t |-> "fact_metricas_gaming"]>>

\* The seeded catalog of dim_videojuego (nombre_juego; the ids are serial).
juegos ==
    <<"DOTA", "Valorant", "CS:GO", "League of Legends", "Fortnite",
      "Overwatch", "Apex Legends", "Call of Duty", "Rocket League",
      "Hearthstone", "StarCraft", "Rainbow Six", "Esports General">>

\* One statement of the schema script: [ok, tabs].
ExecStatement(tabs, st) ==
    CASE st.op = "drop" ->
             [ok |-> TRUE, tabs |-> [tabs EXCEPT ![st.t] = NoTable]]
      [] st.op = "create" ->
             IF tabs[st.t].exists
                \/ \E fk \in ForeignKeys(st.t) : ~tabs[fk.ref].exists
             THEN [ok |-> FALSE, tabs |-> tabs]
             ELSE [ok |-> TRUE, tabs |-> [tabs EXCEPT ![st.t] = EmptyTable]]
      [] st.op = "create_if_not_exists" ->
             IF tabs[st.t].exists THEN [ok |-> TRUE, tabs |-> tabs]
             ELSE [ok |-> TRUE, tabs |-> [tabs EXCEPT ![st.t] = EmptyTable]]
      [] st.op = "seed" ->
             InsertRows(tabs, st.t,
                        [i \in 1..Len(juegos) |-> [nombre_juego |-> juegos[i]]],
                        NoOnConflict)

RECURSIVE ExecAll(_, _)
ExecAll(tabs, sts) ==
    IF sts = <<>> THEN [ok |-> TRUE, tabs |-> tabs]
    ELSE LET r == ExecStatement(tabs, Head(sts)) IN
         IF r.ok THEN ExecAll(r.tabs, Tail(sts))
         ELSE [ok |-> FALSE, tabs |-> tabs]

\* self.conn.commit()
CommitDeferred(d) == d
Commit(d) == [c |-> d.w, w |-> d.w]

\* self.conn.rollback()
RollbackKeepsWork(d) == [c |-> d.w, w |-> d.w]
Rollback(d) == [c |-> d.c, w |-> d.c]

\* except ...: self.conn.rollback(); raise
Raised(d) == [ok |-> FALSE, d |-> Rollback(d)]

\* WarehouseLoader.create_schema_gaming on the database d = [c, w] (c: the
\* committed tables, w: the tables the connection's transaction sees).
\* faultAt > 0: the server raises a psycopg2.Error at statement faultAt,
\* after the statements before it ran in the transaction; 0: no fault.
\* The result is [ok, d]; ok = FALSE when the method raises.
create_schema_gaming(d, faultAt) ==
    LET sts == IF faultAt = 0 THEN SchemaStatements
               ELSE SubSeq(SchemaStatements, 1, faultAt - 1)
        r   == ExecAll(d.w, sts)
    IN  IF faultAt # 0 \/ ~r.ok THEN Raised([d EXCEPT !.w = r.tabs])
        ELSE [ok |-> TRUE, d |-> Commit([d EXCEPT !.w = r.tabs])]

(***************************************************************************)
(* Field values of raw and cleaned records (Python objects): each value    *)
(* carries its kind.  A "json" value is a string whose text, after         *)
(* replace("'", '"'), json.loads decodes to .parsed; JInvalid is a string  *)
(* that json.loads rejects.  JNull stands for None and for NaN, which      *)
(* pandas does not tell apart.  Raise(e) is the exception e leaving the    *)
(* function in place of a value.                                           *)
(***************************************************************************)
JNull == [kind |-> "null"]
JStr(s) == [kind |-> "str", s |-> s]
\* A finite number: (-1)^neg * (n + 0.frac), frac without trailing zeros.
JDec(neg, n, frac) == [kind |-> "num", neg |-> neg, n |-> n, frac |-> frac]
JNum(n) == JDec(FALSE, n, "")
JInf == [kind |-> "inf"]
JBool(b) == [kind |-> "bool", b |-> b]
\* A JSON object with arbitrary keys: fields is a record key -> value.
JObject(fields) == [kind |-> "object", fields |-> fields]
JList(items) == [kind |-> "list", items |-> items]
JDict(id, label) == [kind |-> "dict", id |-> id, label |-> label]
JsonText(v) == [kind |-> "json", parsed |-> v]
JInvalid == [kind |-> "json", parsed |-> [kind |-> "invalid"]]

Raise(e) == [kind |-> "raise", exc |-> e]

\* pd.notna(value) for a scalar.
NotNa(v) == v.kind # "null"

\* "value is None or pd.isna(value)" taken as a condition: pd.isna of a
\* list is an array, and the truth value of an array of two or more
\* elements raises ValueError (that of an empty array depends on the numpy
\* release: the model draws no empty list where this test is reached).
IsNaTruth(v) ==
    CASE v.kind = "null" -> "true"
      [] v.kind = "list" /\ Len(v.items) = 1 ->
            IF NotNa(v.items[1]) THEN "false" ELSE "true"
      [] v.kind = "list" /\ Len(v.items) >= 2 -> "raise"
      [] v.kind \notin {"null", "list"} -> "false"

\* "not value"
Falsy(v) ==
    CASE v.kind = "null" -> TRUE
      [] v.kind = "str" -> v.s = ""
      [] v.kind = "num" -> v.n = 0 /\ v.frac = ""
      [] v.kind = "bool" -> ~v.b
      [] v.kind = "list" -> v.items = <<>>
      [] OTHER -> FALSE

\* A DataFrame is [cols, rows]: the set of its columns and its rows, each
\* row a record over at least those columns.
EmptyFrame == [cols |-> {}, rows |-> <<>>]
Frame(cols, rows) == [cols |-> cols, rows |-> rows]
IsEmptyFrameNever(f) == FALSE

IsEmptyFrame(f) == f.rows = <<>>

RECURSIVE SelectSeq2(_, _, _)
SelectSeq2(s, Test(_, _), seen) ==
    IF s = <<>> THEN <<>>
    ELSE IF Test(Head(s), seen)
         THEN <<Head(s)>> \o SelectSeq2(Tail(s), Test, seen \cup {Head(s).id})
         ELSE SelectSeq2(Tail(s), Test, seen)

\* df.drop_duplicates(subset=['id'], keep='first')
NotSeenId(r, seen) == r.id \notin seen
drop_duplicatesKeepLast(rows) ==
    LET rev(q) == [i \in 1..Len(q) |-> q[Len(q) + 1 - i]]
    IN  rev(SelectSeq2(rev(rows), NotSeenId, {}))
drop_duplicates(rows) == SelectSeq2(rows, NotSeenId, {})

(***************************************************************************)
(* DataTransformer: strings.                                               *)
(***************************************************************************)
IsSpace(c) == c \in {" ", "\t", "\n", "\r", "\f"}

\* A control character (ord < 32) that the filter of clean_string removes:
\* every one but newline, tab and carriage return.
\* U+0001 (start of heading), a control character that is no whitespace;
\* the model's strings write it as the currency sign.
SOH == "¤"
IsRemovedControl(c) == c \in {"\f", SOH}

RECURSIVE LStrip(_)
LStrip(s) ==
    IF Len(s) > 0 /\ IsSpace(SubSeq(s, 1, 1))
    THEN LStrip(SubSeq(s, 2, Len(s))) ELSE s

RECURSIVE RStrip(_)
RStrip(s) ==
    IF Len(s) > 0 /\ IsSpace(SubSeq(s, Len(s), Len(s)))
    THEN RStrip(SubSeq(s, 1, Len(s) - 1)) ELSE s

\* str.strip()
Strip(s) == RStrip(LStrip(s))

\* ' '.join(value.split()) on a stripped string.
RECURSIVE CollapseSpaces(_)
CollapseSpaces(s) ==
    IF Len(s) = 0 THEN ""
    ELSE IF IsSpace(SubSeq(s, 1, 1))
         THEN " " \o CollapseSpaces(LStrip(s))
         ELSE SubSeq(s, 1, 1) \o CollapseSpaces(SubSeq(s, 2, Len(s)))

RECURSIVE RemoveControl(_)
RemoveControl(s) ==
    IF Len(s) = 0 THEN ""
    ELSE (IF IsRemovedControl(SubSeq(s, 1, 1)) THEN "" ELSE SubSeq(s, 1, 1))
         \o RemoveControl(SubSeq(s, 2, Len(s)))

Truncate(s, n) == IF Len(s) > n THEN SubSeq(s, 1, n) ELSE s

\* str(value) of a scalar field value.
PyStr(v) ==
    CASE v.kind = "str" -> v.s
      [] v.kind = "null" -> "None"
      [] v.kind = "bool" -> IF v.b THEN "True" ELSE "False"
      [] v.kind = "inf" -> "inf"
      [] OTHER -> "<object>"

\* DataTransformer.clean_string
clean_string(value, max_length) ==
    IF IsNaTruth(value) = "raise" THEN Raise("ValueError")
    ELSE IF IsNaTruth(value) = "true" THEN JNull
    ELSE LET v1 == Strip(PyStr(value)) IN
         IF v1 = "" THEN JNull
         ELSE LET v2 == Truncate(RemoveControl(CollapseSpaces(v1)), max_length)
              IN  IF v2 = "" THEN JNull ELSE JStr(v2)

\* DataTransformer.normalize_boolean
normalize_boolean(value) ==
    IF IsNaTruth(value) = "raise" THEN Raise("ValueError")
    ELSE IF IsNaTruth(value) = "true" THEN JNull
    ELSE CASE value.kind = "bool" -> value
           [] value.kind = "num" -> JBool(value.n # 0)
           [] value.kind = "inf" -> Raise("OverflowError")
           [] value.kind = "str" ->
                LET lower == Strip(Lower(value.s)) IN
                IF lower \in {"true", "yes", "1", "t", "y", "si", "sí"}
                THEN JBool(TRUE)
                ELSE IF lower \in {"false", "no", "0", "f", "n"}
                     THEN JBool(FALSE) ELSE JNull
           [] OTHER -> JNull

\* value.count(c)
CountChar(s, c) == Cardinality({i \in 1..Len(s) : SubSeq(s, i, i) = c})

\* value.rfind(c): the last position of c counted from 0, -1 when absent.
RFind(s, c) ==
    IF CountChar(s, c) = 0 THEN -1
    ELSE (CHOOSE i \in 1..Len(s) :
              /\ SubSeq(s, i, i) = c
              /\ \A j \in (i + 1)..Len(s) : SubSeq(s, j, j) # c) - 1

\* value.replace(c, to) for a one-character c.
RECURSIVE Replace(_, _, _)
Replace(s, c, to) ==
    IF Len(s) = 0 THEN ""
    ELSE (IF SubSeq(s, 1, 1) = c THEN to ELSE SubSeq(s, 1, 1))
         \o Replace(SubSeq(s, 2, Len(s)), c, to)

DecimalDigits == "0123456789"
IsDigits(s) == \A i \in 1..Len(s) : Contains(DecimalDigits, SubSeq(s, i, i))

RECURSIVE DigitsValue(_)
DigitsValue(s) ==
    IF Len(s) = 0 THEN 0
    ELSE 10 * DigitsValue(SubSeq(s, 1, Len(s) - 1))
         + (CHOOSE d \in 0..9 :
                SubSeq(DecimalDigits, d + 1, d + 1) = SubSeq(s, Len(s), Len(s)))

RECURSIVE StripZeros(_)
StripZeros(s) ==
    IF Len(s) > 0 /\ SubSeq(s, Len(s), Len(s)) = "0"
    THEN StripZeros(SubSeq(s, 1, Len(s) - 1)) ELSE s

\* float(s) for a stripped string without exponent and underscores: an
\* optional sign, then digits with at most one '.', or inf / infinity / nan
\* in any case; Raise("ValueError") for everything else.
PyFloat(s) ==
    LET signed == Len(s) > 0 /\ SubSeq(s, 1, 1) \in {"+", "-"}
        neg    == Len(s) > 0 /\ SubSeq(s, 1, 1) = "-"
        body   == IF signed THEN SubSeq(s, 2, Len(s)) ELSE s
        dot    == RFind(body, ".")
        int    == IF dot < 0 THEN body ELSE SubSeq(body, 1, dot)
        frac   == IF dot < 0 THEN "" ELSE SubSeq(body, dot + 2, Len(body))
    IN  IF Lower(body) \in {"inf", "infinity"} THEN JInf
        ELSE IF Lower(body) = "nan" THEN JNull
        ELSE IF IsDigits(int) /\ IsDigits(frac) /\ Len(int) + Len(frac) > 0
             THEN JDec(neg, DigitsValue(int), StripZeros(frac))
             ELSE Raise("ValueError")

\* DataTransformer.normalize_numeric
normalize_numeric(value) ==
    IF IsNaTruth(value) = "raise" THEN Raise("ValueError")
    ELSE IF IsNaTruth(value) = "true" THEN JNull
    ELSE CASE value.kind \in {"num", "inf"} -> value
           [] value.kind = "bool" -> JNum(IF value.b THEN 1 ELSE 0)
           [] value.kind = "str" ->
                LET v1     == Strip(value.s)
                    dots   == CountChar(v1, ".")
                    commas == CountChar(v1, ",")
                    v2     == IF dots > 0 /\ commas = 1
                                 /\ RFind(v1, ",") > RFind(v1, ".")
                              THEN Replace(Replace(v1, ".", ""), ",", ".")
                              ELSE IF commas > 0 /\ dots = 0
                                   THEN Replace(v1, ",", "")
                                   ELSE v1
                    parsed == PyFloat(v2)
                IN  IF v1 = "" \/ parsed.kind = "raise" THEN JNull ELSE parsed
           [] OTHER -> JNull

\* The list that normalize_prices, normalize_outcomes and parse_tags
\* iterate over: the value itself, or what json.loads makes of the string
\* that starts with '['; NULL when they return None before the loop
\* (another type, another string, or a JSONDecodeError that the handler
\* catches).
ListOf(v) ==
    CASE v.kind = "list" -> v.items
      [] v.kind = "json" /\ v.parsed.kind = "list" -> v.parsed.items
      [] OTHER -> NULL

\* The head of the three functions: "if not x or pd.isna(x): return None",
\* which stands before the try block, then the loop over ListOf(x) with
\* Item(_) applied to every element (Raise("skip") for an element that the
\* loop does not append), and "return result if result else None".
NormalizeList(v, Item(_)) ==
    IF Falsy(v) THEN JNull
    ELSE IF IsNaTruth(v) = "raise" THEN Raise("ValueError")
    ELSE IF IsNaTruth(v) = "true" \/ ListOf(v) = NULL THEN JNull
    ELSE LET items  == ListOf(v)
             mapped == [i \in 1..Len(items) |-> Item(items[i])]
             result == SelectSeq(mapped, LAMBDA x : x.kind # "raise")
         IN  IF result = <<>> THEN JNull ELSE JList(result)

PriceItem(price) ==
    CASE price.kind = "str" -> PyFloat(Strip(price.s))
      [] price.kind \in {"num", "inf"} -> price
      [] price.kind = "bool" -> JNum(IF price.b THEN 1 ELSE 0)
      [] OTHER -> Raise("skip")

OutcomeItem(outcome) ==
    IF outcome.kind = "str" /\ Strip(outcome.s) # ""
    THEN JStr(Upper(Strip(outcome.s))) ELSE Raise("skip")

TagItem(tag) ==
    IF tag.kind = "str" /\ Strip(tag.s) # ""
    THEN JStr(Lower(Strip(tag.s))) ELSE Raise("skip")

\* DataTransformer.normalize_prices
normalize_prices(prices_str) == NormalizeList(prices_str, PriceItem)

\* DataTransformer.normalize_outcomes
normalize_outcomes(outcomes_str) == NormalizeList(outcomes_str, OutcomeItem)

\* DataTransformer.parse_tags: list(set(result)) holds the distinct tags in
\* an order that the build chooses, kept here as their set.
parse_tags(tags_str) ==
    LET r == NormalizeList(tags_str, TagItem)
    IN  IF r.kind = "list"
        THEN [kind |-> "set", items |-> {r.items[i] : i \in 1..Len(r.items)}]
        ELSE r

(***************************************************************************)
(* DataTransformer: the gaming pipeline.                                   *)
(***************************************************************************)
gaming_keywords ==
    <<"game", "gaming", "esports", "esport", "stream", "twitch", "dota",
      "cs:go", "valorant", "fortnite", "minecraft", "overwatch", "league",
      "lol", "nba 2k", "madden", "fifa", "nfl">>

\* df['question'].str.lower().str.contains('|'.join(gaming_keywords)), na=False
gaming_mask(question) ==
    /\ question.kind = "str"
    /\ \E k \in 1..Len(gaming_keywords) :
           Contains(Lower(question.s), gaming_keywords[k])

\* game_mapping of extract_gaming_type, in dictionary order.
game_mapping ==
    <<[game |-> "DOTA", keywords |-> <<"dota", "dota 2", "dota2">>],
      [game |-> "Valorant", keywords |-> <<"valorant">>],
      [game |-> "CS:GO", keywords |-> <<"cs:go", "csgo", "counter-strike">>],
      [game |-> "League of Legends",
       keywords |-> <<"league of legends", "lol", "leagueoflegends">>],
      [game |-> "Fortnite", keywords |-> <<"fortnite">>],
      [game |-> "Minecraft", keywords |-> <<"minecraft">>],
      [game |-> "Overwatch", keywords |-> <<"overwatch">>],
      [game |-> "Apex Legends", keywords |-> <<"apex", "apex legends">>],
      [game |-> "Call of Duty", keywords |-> <<"call of duty", "cod">>],
      [game |-> "Hearthstone", keywords |-> <<"hearthstone">>],
      [game |-> "StarCraft", keywords |-> <<"starcraft", "starcraft 2", "sc2">>],
      [game |-> "Dota2",
       keywords |-> <<"the international", "ti8", "ti9", "ti10", "ti11">>],
      [game |-> "Fighting Games",
       keywords |-> <<"fighting", "street fighter", "tekken", "mortal kombat">>],
      [game |-> "Esports",
       keywords |-> <<"esports", "esport", "tournament", "champion">>],
      [game |-> "Streaming",
       keywords |-> <<"twitch", "youtube", "streamer", "streaming">>]>>

extract_gaming_typeLastMatch(question) ==
    IF ~NotNa(question) \/ PyStr(question) = "" THEN JNull
    ELSE LET q == Lower(PyStr(question))
             hits == {g \in 1..Len(game_mapping) :
                         \E k \in 1..Len(game_mapping[g].keywords) :
                             Contains(q, game_mapping[g].keywords[k])}
         IN  IF hits # {}
             THEN JStr(game_mapping[CHOOSE g \in hits :
                                        \A h \in hits : g >= h].game)
             ELSE IF Contains(q, "game") \/ Contains(q, "gaming")
                  THEN JStr("Gaming")
                  ELSE JNull

\* DataTransformer.extract_gaming_type
extract_gaming_type(question) ==
    IF ~NotNa(question) \/ PyStr(question) = "" THEN JNull
    ELSE LET q == Lower(PyStr(question))
             hits == {g \in 1..Len(game_mapping) :
                         \E k \in 1..Len(game_mapping[g].keywords) :
                             Contains(q, game_mapping[g].keywords[k])}
         IN  IF hits # {}
             THEN JStr(game_mapping[CHOOSE g \in hits :
                                        \A h \in hits : g <= h].game)
             ELSE IF Contains(q, "game") \/ Contains(q, "gaming")
                  THEN JStr("Gaming")
                  ELSE JNull

\* DataTransformer.extract_bet_type
extract_bet_type(question) ==
    IF ~NotNa(question) \/ PyStr(question) = "" THEN JNull
    ELSE LET q == Lower(PyStr(question)) IN
         CASE Contains(q, "will win") \/ Contains(q, "who will win") ->
                JStr("Match Winner")
           [] Contains(q, "spread") \/ Contains(q, "by more than")
              \/ Contains(q, "by less than") -> JStr("Spread")
           [] Contains(q, "over") /\ Contains(q, "under") -> JStr("Over/Under")
           [] Contains(q, "total")
              /\ (Contains(q, "point") \/ Contains(q, "kill")) ->
                JStr("Over/Under")
           [] Contains(q, "first") /\ Contains(q, "win") -> JStr("First Blood")
           [] Contains(q, "mvp") \/ Contains(q, "best player") ->
                JStr("MVP/Best Player")
           [] Contains(q, "map") \/ Contains(q, "round") ->
                JStr("Round/Map Winner")
           [] OTHER -> JStr("Prop Bet")

\* A .apply of the cleaners raised: the exception leaves the cleaner.
Raising(rows, cols) ==
    \E i \in 1..Len(rows), c \in cols : rows[i][c].kind = "raise"

\* What a cleaner returned is a frame, not an exception.
IsRaise(x) == "kind" \in DOMAIN x

\* relevant_cols of validate_and_clean_gaming_markets that the model carries.
relevant_cols ==
    {"id", "question", "gaming_type", "bet_type", "volume", "updatedAt"}

\* pd.to_datetime(x, errors='coerce') on ISO strings "YYYY-MM-DDTHH:MM":
\* anything else becomes NaT.
to_datetime(v) ==
    IF v.kind = "str" /\ Len(v.s) = 16
       /\ SubSeq(v.s, 5, 5) = "-" /\ SubSeq(v.s, 8, 8) = "-"
       /\ SubSeq(v.s, 11, 11) = "T"
    THEN v ELSE JNull

\* Timestamp.date()
DateOf(v) == IF v.kind = "str" THEN JStr(SubSeq(v.s, 1, 10)) ELSE JNull

\* Steps 3 to 11 of validate_and_clean_gaming_markets on one row: the two
\* extracted columns, the normalized ones, and of relevant_cols those that
\* the frame has (available_cols).
CleanGamingRow(r) ==
    [c \in relevant_cols \cap (DOMAIN r \cup {"gaming_type", "bet_type"}) |->
        CASE c = "gaming_type" -> extract_gaming_type(r.question)
          [] c = "bet_type" -> extract_bet_type(r.question)
          [] c = "question" -> clean_string(r.question, 500)
          [] c = "volume" -> normalize_numeric(r.volume)
          [] c = "updatedAt" -> to_datetime(r.updatedAt)
          [] OTHER -> r[c]]

\* DataTransformer.validate_and_clean_gaming_markets on a frame with columns
\* among id, question, volume, updatedAt, events.  df['question'] and
\* subset=['id'] raise KeyError on a frame without the column; the other
\* columns are tested with "if col in df.columns".
validate_and_clean_gaming_markets(frame) ==
    IF "question" \notin frame.cols \/ "id" \notin frame.cols
    THEN Raise("KeyError")
    ELSE LET step1 == SelectSeq(frame.rows, LAMBDA r : gaming_mask(r.question))
             step2 == drop_duplicates(step1)
             step3 == [i \in 1..Len(step2) |-> CleanGamingRow(step2[i])]
             cols  == relevant_cols
                          \cap (frame.cols \cup {"gaming_type", "bet_type"})
             step12 == IF "volume" \in frame.cols
                       THEN SelectSeq(step3, LAMBDA r : NotNa(r.volume))
                       ELSE step3
         IN  IF Raising(step3, {"question", "volume"} \cap frame.cols)
             THEN Raise("ValueError")
             ELSE Frame(cols, step12)

\* DataTransformer.pipeline_complete_gaming: the cleaned frame, or an empty
\* DataFrame when the Delta table is missing or empty, when nothing passes
\* the filter or the cleaning, or when any step raises.
pipeline_complete_gaming(markets) ==
    IF ~markets.exists \/ markets.frame.rows = <<>> THEN EmptyFrame
    ELSE LET df_raw == SelectSeq(markets.frame.rows,
                                 LAMBDA r : gaming_mask(r.question))
         IN  IF df_raw = <<>> THEN EmptyFrame
             ELSE LET df_clean == validate_and_clean_gaming_markets(
                                      Frame(markets.frame.cols, df_raw))
                  IN  IF IsRaise(df_clean) THEN EmptyFrame
                      ELSE IF df_clean.rows = <<>> THEN EmptyFrame
                      ELSE df_clean

\* "for col in ...: if col in df.columns: df[col] = df[col].apply(f)" on one
\* row: every column of the frame that has a normalizer gets its result.
CleanEventRow(r) ==
    [c \in DOMAIN r |->
        CASE c = "title" -> clean_string(r[c], 2048)
          [] c = "tags" -> parse_tags(r[c])
          [] OTHER -> r[c]]

CleanMarketRow(r) ==
    [c \in DOMAIN r |->
        CASE c = "question" -> clean_string(r[c], 2048)
          [] c = "volume" -> normalize_numeric(r[c])
          [] c = "updatedAt" -> to_datetime(r[c])
          [] OTHER -> r[c]]

\* DataTransformer.validate_and_clean_events on a frame with columns among
\* id, title, tags, series.  drop_duplicates(subset=['id']) raises KeyError
\* on a frame without the column id; an exception of a normalizer leaves
\* .apply and the cleaner, which has no handler.
validate_and_clean_events(frame) ==
    IF "id" \notin frame.cols THEN Raise("KeyError")
    ELSE LET step1 == drop_duplicates(frame.rows)
             step2 == [i \in 1..Len(step1) |-> CleanEventRow(step1[i])]
         IN  IF Raising(step2, {"title", "tags"} \cap frame.cols)
             THEN Raise("ValueError")
             ELSE Frame(frame.cols, step2)

\* DataTransformer.validate_and_clean_markets on a frame with columns among
\* id, question, volume, updatedAt, events.
validate_and_clean_markets(frame) ==
    IF "id" \notin frame.cols THEN Raise("KeyError")
    ELSE LET step1 == drop_duplicates(frame.rows)
             step2 == [i \in 1..Len(step1) |-> CleanMarketRow(step1[i])]
         IN  IF Raising(step2, {"question", "volume"} \cap frame.cols)
             THEN Raise("ValueError")
             ELSE Frame(frame.cols, step2)

(***************************************************************************)
(* load_all: the keyword fallback that selects the gaming events.          *)
(* A pattern is a sequence of elements between two \b anchors:             *)
(*   lit s      the literal s                                              *)
(*   opt cs     at most one character of cs      ( s?  [:\-]? )            *)
(*   one cs     exactly one character of cs      ( [\-\s]  \d )            *)
(*   star cs    any number of characters of cs   ( \s* )                   *)
(***************************************************************************)
Lit(s) == [k |-> "lit", s |-> s]
Opt(cs) == [k |-> "opt", s |-> cs]
One(cs) == [k |-> "one", s |-> cs]
Star(cs) == [k |-> "star", s |-> cs]

Digits == "0123456789"
Spaces == " \t\n\r\f"

keywords_exact ==
    <<<<Lit("esport"), Opt("s")>>,
      <<Lit("dota")>>,
      <<Lit("dota"), Star(Spaces), Lit("2")>>,
      <<Lit("valorant")>>,
      <<Lit("cs"), Opt(":-"), Lit("go")>>,
      <<Lit("counter"), One("-" \o Spaces), Lit("strike")>>,
      <<Lit("league of legends")>>,
      <<Lit("overwatch")>>,
      <<Lit("fortnite")>>,
      <<Lit("apex legends")>>,
      <<Lit("call of duty league")>>,
      <<Lit("hearthstone")>>,
      <<Lit("starcraft")>>,
      <<Lit("rocket league")>>,
      <<Lit("rainbow six")>>,
      <<Lit("blast premier")>>,
      <<Lit("esl pro")>>,
      <<Lit("iem")>>,
      <<Lit("faceit")>>,
      <<Lit("pgl major")>>,
      <<Lit("vct")>>,
      <<Lit("lck")>>,
      <<Lit("lcs")>>,
      <<Lit("lec")>>,
      <<Lit("worlds 20"), One(Digits), One(Digits)>>,
      <<Lit("rlcs")>>,
      <<Lit("dreamhack")>>,
      <<Lit("owcs")>>,
      <<Lit("msi 20"), One(Digits), One(Digits)>>,
      <<Lit("cs2")>>>>

exclude_kws ==
    <<"election", "politic", "president", "senate", "congress", "democrat",
      "republican", "trump", "biden", "nfl", "nba", "mlb", "nhl", "soccer",
      "football", "baseball", "hockey", "tennis", "golf", "boxing", "ufc",
      "mma", "horse", "bitcoin", "crypto">>

InChars(c, cs) == \E i \in 1..Len(cs) : SubSeq(cs, i, i) = c

CharAt(s, i) == IF i >= 1 /\ i <= Len(s) THEN SubSeq(s, i, i) ELSE ""

\* \w
IsWordChar(c) ==
    c # "" /\ InChars(c, LowerChars \o UpperChars \o Digits \o "_")

\* \b between s[i-1] and s[i]
WordBoundary(s, i) == IsWordChar(CharAt(s, i - 1)) # IsWordChar(CharAt(s, i))

\* The positions right after a match of pat[k..] that starts at s[i].
RECURSIVE MatchEnds(_, _, _, _)
MatchEnds(pat, k, s, i) ==
    IF k > Len(pat) THEN {i}
    ELSE LET e == pat[k]
             here == CharAt(s, i) # "" /\ InChars(CharAt(s, i), e.s)
         IN CASE e.k = "lit" ->
                     IF i + Len(e.s) - 1 <= Len(s)
                        /\ SubSeq(s, i, i + Len(e.s) - 1) = e.s
                     THEN MatchEnds(pat, k + 1, s, i + Len(e.s)) ELSE {}
              [] e.k = "opt" ->
                     MatchEnds(pat, k + 1, s, i)
                     \cup (IF here THEN MatchEnds(pat, k + 1, s, i + 1) ELSE {})
              [] e.k = "one" ->
                     IF here THEN MatchEnds(pat, k + 1, s, i + 1) ELSE {}
              [] e.k = "star" ->
                     MatchEnds(pat, k + 1, s, i)
                     \cup (IF here THEN MatchEnds(pat, k, s, i + 1) ELSE {})

\* re.search(r'\b' + pat + r'\b', s)
WordSearch(pat, s) ==
    \E i \in 1..Len(s) :
        /\ WordBoundary(s, i)
        /\ \E j \in MatchEnds(pat, 1, s, i) : WordBoundary(s, j)

\* mask_include & ~mask_exclude over the combined lower-cased text columns
\* (of title, category, subcategory, slug, ticker the model carries title).
event_keyword_mask(ev) ==
    LET combined == Lower(IF NotNa(ev.title) THEN PyStr(ev.title) ELSE "")
    IN  /\ \E p \in 1..Len(keywords_exact) : WordSearch(keywords_exact[p], combined)
        /\ ~\E x \in 1..Len(exclude_kws) : Contains(combined, exclude_kws[x])

(***************************************************************************)
(* WarehouseLoader: parsing of the JSON-in-string relation fields.         *)
(***************************************************************************)
\* The ids the loops over a market's 'events' value collect, in order
\* (load_relations_mercado_evento_gaming and load_all share the loop).
EmbeddedIds(val) ==
    IF val.kind # "json" THEN <<>>
    ELSE LET p == val.parsed IN
         CASE p.kind = "list" ->
                  LET keep == SelectSeq(p.items, LAMBDA it :
                                  \/ it.kind = "dict" /\ it.id # ""
                                  \/ it.kind = "str")
                  IN  [i \in 1..Len(keep) |->
                          IF keep[i].kind = "dict" THEN keep[i].id ELSE keep[i].s]
           [] p.kind = "dict" -> IF p.id # "" THEN <<p.id>> ELSE <<>>
           [] OTHER -> <<>>

\* The ids load_all collects from an event's 'series' value: dict items only.
SeriesIds(val) ==
    IF val.kind # "json" THEN {}
    ELSE LET p == val.parsed IN
         CASE p.kind = "list" ->
                  {p.items[i].id : i \in {j \in 1..Len(p.items) :
                       p.items[j].kind = "dict" /\ p.items[j].id # ""}}
           [] p.kind = "dict" -> IF p.id # "" THEN {p.id} ELSE {}
           [] OTHER -> {}

\* serie_id of an event row in load_dim_evento_gaming (no seriesId column):
\* the id of the first element of a list of objects ("" when it has none),
\* or of a single object.
EventSerieId(val) ==
    IF val.kind # "json" THEN NULL
    ELSE LET p == val.parsed IN
         CASE p.kind = "list" ->
                  IF Len(p.items) > 0 /\ p.items[1].kind = "dict"
                  THEN p.items[1].id
                  ELSE NULL
           [] p.kind = "dict" -> IF p.id # "" THEN p.id ELSE NULL
           [] OTHER -> NULL

\* WarehouseLoader._parse_tags_field
_parse_tags_field(val) ==
    IF val.kind # "json" THEN <<>>
    ELSE LET p == val.parsed IN
         IF p.kind # "list" THEN <<>>
         ELSE LET name(it) ==
                      CASE it.kind = "dict" ->
                               Strip(IF it.label # "" THEN it.label ELSE it.id)
                        [] it.kind = "str" -> Strip(it.s)
                        [] OTHER -> ""
                  keep == SelectSeq(p.items, LAMBDA it : name(it) # "")
              IN  [i \in 1..Len(keep) |-> name(keep[i])]

\* Python's order on strings (code points), over the printable ASCII
\* characters but the quotes and the backslash.
AsciiOrder ==
    " !#$%&()*+,-./0123456789:;<=>?@ABCDEFGHIJKLMNOPQRSTUVWXYZ[]^_"
    \o "abcdefghijklmnopqrstuvwxyz{|}~"

CharRank(c) == CHOOSE i \in 1..Len(AsciiOrder) : SubSeq(AsciiOrder, i, i) = c

RECURSIVE StrLess(_, _)
StrLess(a, b) ==
    IF Len(b) = 0 THEN FALSE
    ELSE IF Len(a) = 0 THEN TRUE
    ELSE IF SubSeq(a, 1, 1) = SubSeq(b, 1, 1)
         THEN StrLess(SubSeq(a, 2, Len(a)), SubSeq(b, 2, Len(b)))
         ELSE CharRank(SubSeq(a, 1, 1)) < CharRank(SubSeq(b, 1, 1))

\* sorted(set_of_strings)
RECURSIVE sorted(_)
sorted(S) ==
    IF S = {} THEN <<>>
    ELSE LET m == CHOOSE x \in S : \A y \in S \ {x} : StrLess(x, y)
         IN  <<m>> \o sorted(S \ {m})

\* Concatenation of a sequence of sequences.
RECURSIVE Flatten(_)
Flatten(ss) == IF ss = <<>> THEN <<>> ELSE Head(ss) \o Flatten(Tail(ss))

(***************************************************************************)
(* WarehouseLoader: the load operations.  Each takes the database as the   *)
(* pair d = [c, w] (c: committed tables, w: the tables the connection's    *)
(* transaction sees), the batch, and fault (the server raises during the   *)
(* bulk insert), and returns [ok, d]; ok = FALSE when the method raises.   *)
(***************************************************************************)
\* execute_values(...) then self.conn.commit(), inside the try block.
\* fault: the server raises at the commit, after the rows were written in
\* the transaction.
BulkInsertNoOnConflict(d, t, rows, target, fault) ==
    LET r == InsertRows(d.w, t, rows, NoOnConflict) IN
    IF ~r.ok THEN Raised(d)
    ELSE IF fault THEN Raised([d EXCEPT !.w = r.tabs])
    ELSE [ok |-> TRUE, d |-> Commit([d EXCEPT !.w = r.tabs])]
BulkInsert(d, t, rows, target, fault) ==
    LET r == InsertRows(d.w, t, rows, target) IN
    IF ~r.ok THEN Raised(d)
    ELSE IF fault THEN Raised([d EXCEPT !.w = r.tabs])
    ELSE [ok |-> TRUE, d |-> Commit([d EXCEPT !.w = r.tabs])]

\* str(r['id']) if pd.notna(r.get('id')) else None; falsy ids are skipped.
RowId(r) == IF NotNa(r.id) THEN PyStr(r.id) ELSE ""

\* Cell of a string column for an Optional[str] value.
Cell(v) == IF v.kind = "str" THEN v.s ELSE NULL

\* WarehouseLoader.load_dim_serie_gaming
load_dim_serie_gaming(d, series_frame, fault) ==
    LET src  == SelectSeq(series_frame.rows, LAMBDA r : RowId(r) # "")
        rows == [i \in 1..Len(src) |->
                    [serie_id |-> RowId(src[i]),
                     titulo   |-> Cell(clean_string(src[i].title, 2048))]]
    IN  IF rows = <<>> THEN [ok |-> TRUE, d |-> d]
        ELSE BulkInsert(d, "dim_serie_gaming", rows, {"serie_id"}, fault)

\* WarehouseLoader.load_dim_evento_gaming
load_dim_evento_gaming(d, events_frame, fault) ==
    IF ~d.w["dim_serie_gaming"].exists THEN Raised(d)
    ELSE
    LET valid_series == SelectCol(d.w, "dim_serie_gaming", "serie_id")
        src  == SelectSeq(events_frame.rows, LAMBDA r : RowId(r) # "")
        sid(r) == LET x == EventSerieId(r.series)
                  IN  IF x # NULL /\ x # "" /\ x \notin valid_series
                      THEN NULL ELSE x
        rows == [i \in 1..Len(src) |->
                    [evento_id |-> RowId(src[i]),
                     titulo    |-> Cell(clean_string(src[i].title, 2048)),
                     serie_id  |-> sid(src[i])]]
    IN  IF rows = <<>> THEN [ok |-> TRUE, d |-> d]
        ELSE BulkInsert(d, "dim_evento_gaming", rows, {"evento_id"}, fault)

\* WarehouseLoader.load_dim_tag_gaming
load_dim_tag_gaming(d, events_frame, fault) ==
    LET tags == IF "tags" \in events_frame.cols
                THEN UNION {Range(_parse_tags_field(events_frame.rows[i].tags)) :
                               i \in 1..Len(events_frame.rows)}
                ELSE {}
        names == sorted(tags)
        rows == [i \in 1..Len(names) |-> [tag_nombre |-> names[i]]]
    IN  IF tags = {} THEN [ok |-> TRUE, d |-> d]
        ELSE BulkInsert(d, "dim_tag_gaming", rows, {"tag_nombre"}, fault)

\* The candidate (mercado_id, evento_id) pairs of a markets frame.
MercadoEventoCandidates(markets_frame) ==
    LET src == SelectSeq(markets_frame.rows, LAMBDA r : RowId(r) # "")
    IN  Flatten([i \in 1..Len(src) |->
            LET ids == EmbeddedIds(src[i].events)
            IN  [k \in 1..Len(ids) |->
                    [mercado_id |-> RowId(src[i]), evento_id |-> ids[k]]]])

\* rows = [(m, e) for m, e in rows if e in valid_events and m in valid_markets]
ValidRelationAnyEvent(row, valid_events, valid_markets) ==
    row.mercado_id \in valid_markets
ValidRelation(row, valid_events, valid_markets) ==
    row.evento_id \in valid_events /\ row.mercado_id \in valid_markets

\* WarehouseLoader.load_relations_mercado_evento_gaming
load_relations_mercado_evento_gaming(d, markets_frame, fault) ==
    IF "events" \notin markets_frame.cols THEN [ok |-> TRUE, d |-> d]
    ELSE
    LET cand == MercadoEventoCandidates(markets_frame) IN
    IF cand = <<>> THEN [ok |-> TRUE, d |-> d]
    ELSE IF ~d.w["dim_evento_gaming"].exists \/ ~d.w["dim_mercado_gaming"].exists
    THEN Raised(d)
    ELSE
    LET valid_events  == SelectCol(d.w, "dim_evento_gaming", "evento_id")
        valid_markets == SelectCol(d.w, "dim_mercado_gaming", "mercado_id")
        rows == SelectSeq(cand, LAMBDA row :
                    ValidRelation(row, valid_events, valid_markets))
    IN  IF rows = <<>> THEN [ok |-> TRUE, d |-> d]
        ELSE BulkInsert(d, "fact_mercado_evento_gaming", rows, {}, fault)

\* tag_map.get(tag): the tag_id of a tag name, NoId when it is not loaded.
TagId(tabs, tag) ==
    LET hits == {i \in 1..Len(tabs["dim_tag_gaming"].rows) :
                    tabs["dim_tag_gaming"].rows[i].tag_nombre = tag}
    IN  IF hits = {} THEN NoId
        ELSE tabs["dim_tag_gaming"].rows[CHOOSE i \in hits : TRUE].tag_id

\* WarehouseLoader.load_relations_evento_tag_gaming
load_relations_evento_tag_gaming(d, events_frame, fault) ==
    IF "tags" \notin events_frame.cols THEN [ok |-> TRUE, d |-> d]
    ELSE IF ~d.w["dim_evento_gaming"].exists \/ ~d.w["dim_tag_gaming"].exists
    THEN Raised(d)
    ELSE
    LET valid_events == SelectCol(d.w, "dim_evento_gaming", "evento_id")
        src == SelectSeq(events_frame.rows, LAMBDA r :
                   RowId(r) # "" /\ RowId(r) \in valid_events)
        cand == Flatten([i \in 1..Len(src) |->
                    LET tags == _parse_tags_field(src[i].tags)
                    IN  [k \in 1..Len(tags) |->
                            [evento_id |-> RowId(src[i]),
                             tag_id    |-> TagId(d.w, tags[k])]]])
        rows == SelectSeq(cand, LAMBDA row : row.tag_id # NoId)
    IN  IF rows = <<>> THEN [ok |-> TRUE, d |-> d]
        ELSE BulkInsert(d, "fact_evento_tag_gaming", rows, {}, fault)

\* juego_map.get(name): the videojuego_id of a catalog name, NoId (None)
\* when the catalog has no such name.
JuegoId(tabs, name) ==
    LET hits == {i \in 1..Len(tabs["dim_videojuego"].rows) :
                    tabs["dim_videojuego"].rows[i].nombre_juego = name}
    IN  IF hits = {} THEN NoId
        ELSE tabs["dim_videojuego"].rows[CHOOSE i \in hits : TRUE].videojuego_id

\* gaming_type = r.get('gaming_type') or 'Other Gaming'
\* vid_id = juego_map.get(gaming_type, juego_map.get('Other Gaming'))
VideojuegoFor(tabs, gaming_type) ==
    LET name == IF gaming_type.kind = "str" /\ gaming_type.s # ""
                THEN gaming_type.s ELSE "Other Gaming"
    IN  IF JuegoId(tabs, name) # NoId THEN JuegoId(tabs, name)
        ELSE JuegoId(tabs, "Other Gaming")

\* WarehouseLoader.load_dim_mercado_gaming
load_dim_mercado_gaming(d, frame, fault) ==
    IF ~d.w["dim_videojuego"].exists THEN Raised(d)
    ELSE
    LET src  == SelectSeq(frame.rows, LAMBDA r : RowId(r) # "")
        rows == [i \in 1..Len(src) |->
                    [mercado_id    |-> RowId(src[i]),
                     pregunta      |-> IF NotNa(src[i].question)
                                       THEN Truncate(PyStr(src[i].question), 2000)
                                       ELSE NULL,
                     videojuego_id |-> VideojuegoFor(d.w, src[i].gaming_type)]]
    IN  IF rows = <<>> THEN [ok |-> TRUE, d |-> d]
        ELSE BulkInsert(d, "dim_mercado_gaming", rows, {"mercado_id"}, fault)

\* The distinct values of a sequence, in order of first occurrence.
RECURSIVE Unique(_)
Unique(s) ==
    IF s = <<>> THEN <<>>
    ELSE <<Head(s)>> \o Unique(SelectSeq(Tail(s), LAMBDA x : x # Head(s)))

\* fecha_map[d]: the fecha_id of a date, NoId when the date has no row.
FechaId(tabs, fecha) ==
    LET hits == {i \in 1..Len(tabs["dim_fecha"].rows) :
                    tabs["dim_fecha"].rows[i].fecha = fecha}
    IN  IF hits = {} THEN NoId
        ELSE tabs["dim_fecha"].rows[CHOOSE i \in hits : TRUE].fecha_id

\* The loop of _get_or_create_fecha: SELECT the date, INSERT it if absent.
RECURSIVE FechaLoop(_, _)
FechaLoop(tabs, dates) ==
    IF dates = <<>> THEN [ok |-> TRUE, tabs |-> tabs]
    ELSE IF ~tabs["dim_fecha"].exists THEN [ok |-> FALSE, tabs |-> tabs]
    ELSE IF FechaId(tabs, Head(dates)) # NoId THEN FechaLoop(tabs, Tail(dates))
    ELSE LET r == InsertRows(tabs, "dim_fecha", <<[fecha |-> Head(dates)]>>,
                             NoOnConflict)
         IN  IF r.ok THEN FechaLoop(r.tabs, Tail(dates))
             ELSE [ok |-> FALSE, tabs |-> tabs]

\* WarehouseLoader._get_or_create_fecha: the dates are the non-null distinct
\* dates of the batch; it commits what it inserted and has no handler of its
\* own (an error propagates to the caller with the transaction open).
_get_or_create_fecha(d, dates, fault) ==
    LET r == FechaLoop(d.w, dates) IN
    IF fault \/ ~r.ok THEN [ok |-> FALSE, d |-> d]
    ELSE [ok |-> TRUE, d |-> Commit([d EXCEPT !.w = r.tabs])]

\* df['_fecha']: the date of updatedAt per row, and its distinct non-null dates.
FechaOf(r) == Cell(DateOf(to_datetime(r.updatedAt)))

BatchDates(frame) ==
    Unique(SelectSeq([i \in 1..Len(frame.rows) |-> FechaOf(frame.rows[i])],
                     LAMBDA x : x # NULL))

\* WarehouseLoader.load_fact_metricas_gaming.  faultFecha: the server raises
\* in _get_or_create_fecha; fault: it raises in the bulk insert.
load_fact_metricas_gaming(d, frame, faultFecha, fault) ==
    IF "updatedAt" \notin frame.cols THEN Raised(d)
    ELSE
    LET f == _get_or_create_fecha(d, BatchDates(frame), faultFecha) IN
    IF ~f.ok THEN Raised(f.d)
    ELSE
    LET src  == SelectSeq(frame.rows, LAMBDA r :
                    RowId(r) # "" /\ FechaOf(r) # NULL
                    /\ FechaId(f.d.w, FechaOf(r)) # NoId)
        rows == [i \in 1..Len(src) |->
                    [mercado_id    |-> RowId(src[i]),
                     fecha_id      |-> FechaId(f.d.w, FechaOf(src[i])),
                     volumen_total |-> src[i].volume]]
    IN  IF rows = <<>> THEN [ok |-> TRUE, d |-> f.d]
        ELSE BulkInsert(f.d, "fact_metricas_gaming", rows, {}, fault)

(***************************************************************************)
(* The datalake snapshots the model draws its inputs from.                 *)
(***************************************************************************)
RawMarket(id, question, volume, updatedAt, events) ==
    [id |-> id, question |-> question, volume |-> volume,
     updatedAt |-> updatedAt, events |-> events]

MarketCatalog ==
    <<RawMarket(JStr("m1"),
                JStr("Who will win the Valorant Champions grand final?"),
                JNum(1000), JStr("2024-01-05T10:00"),
                JsonText(JList(<<JDict("e1", "")>>))),
      RawMarket(JStr("m2"), JStr("Will  Minecraft game sales top 1M? "),
                JNum(5), JStr("2024-01-05T22:30"),
                JsonText(JList(<<JDict("e9", ""), JDict("e1", "")>>))),
      RawMarket(JStr("m1"), JStr("Dota 2 tournament winner?"),
                JNum(7), JStr("2024-01-06T01:00"), JNull),
      RawMarket(JStr("m3"), JStr("Will the Lakers win the NBA finals?"),
                JNum(9), JStr("2024-01-06T02:00"), JInvalid),
      RawMarket(JStr("m4"), JStr("Fortnite stream record?"),
                JNull, JStr("2024-01-07T09:00"), JsonText(JDict("e1", ""))),
      RawMarket(JNull, JStr("New gaming console?"),
                JNum(3), JStr("n/a"), JNull)>>

RawEvent(id, title, tags, series) ==
    [id |-> id, title |-> title, tags |-> tags, series |-> series]

EventCatalog ==
    <<RawEvent(JStr("e1"), JStr("Valorant Champions 2024"),
               JsonText(JList(<<JDict("7", "Esports"), JStr(" valorant ")>>)),
               JsonText(JList(<<JDict("s1", "")>>))),
      RawEvent(JStr("e2"), JStr("NBA esports showdown"),
               JsonText(JList(<<JStr("nba")>>)), JNull),
      RawEvent(JStr("e1"), JStr("Dota 2 Major"),
               JsonText(JList(<<JStr("Esports"), JDict("dota", "")>>)),
               JsonText(JDict("s9", ""))),
      RawEvent(JStr("e3"), JStr("CS-GO weekly: esport finals"),
               JInvalid, JsonText(JList(<<JDict("s2", "")>>)))>>

RawSerie(id, title) == [id |-> id, title |-> title]

SerieCatalog ==
    <<RawSerie(JStr("s1"), JStr("VCT")), RawSerie(JStr("s2"), JStr(" CS  League")),
      RawSerie(JStr("s1"), JStr("VCT again")), RawSerie(JStr("s7"), JStr("LCK"))>>

MarketCols == {"id", "question", "volume", "updatedAt", "events"}
EventCols == {"id", "title", "tags", "series"}
SerieCols == {"id", "title"}

DeltaTable(cols, rows) == [exists |-> TRUE, frame |-> Frame(cols, rows)]
NoDeltaTable == [exists |-> FALSE, frame |-> EmptyFrame]

\* The sub-sequences of a catalog that hold at most n of its records.
SubSeqsUpTo(catalog, n) ==
    LET tagged == [i \in 1..Len(catalog) |-> [i |-> i, r |-> catalog[i]]]
        pick(S) == LET kept == SelectSeq(tagged, LAMBDA x : x.i \in S)
                   IN  [k \in 1..Len(kept) |-> kept[k].r]
    IN  {pick(S) : S \in {T \in SUBSET (1..Len(catalog)) : Cardinality(T) <= n}}

EventTables ==
    {NoDeltaTable,
     DeltaTable(EventCols, EventCatalog),
     DeltaTable(EventCols, <<EventCatalog[3], EventCatalog[2]>>)}

SerieTables == {NoDeltaTable, DeltaTable(SerieCols, SerieCatalog)}

MarketTables(n) ==
    {NoDeltaTable} \cup {DeltaTable(MarketCols, rows) : rows \in SubSeqsUpTo(MarketCatalog, n)}

(***************************************************************************)
(* WarehouseLoader.load_all, step 1: the cleaned markets and the events    *)
(* and series related to them.                                             *)
(***************************************************************************)
\* The event ids embedded in the 'events' column of the cleaned markets.
MarketEventIds(df0) ==
    IF "events" \in df0.cols
    THEN UNION {Range(EmbeddedIds(df0.rows[i].events)) : i \in 1..Len(df0.rows)}
    ELSE {}

\* all_events[all_events['id'].astype(str).isin(event_ids)]
RelatedEvents(all_events, event_ids) ==
    IF event_ids # {} /\ ~IsEmptyFrame(all_events)
    THEN Frame(all_events.cols,
               SelectSeq(all_events.rows, LAMBDA r : PyStr(r.id) \in event_ids))
    ELSE EmptyFrame

\* The keyword fallback, taken when no related event was found.
GamingEvents(all_events, related) ==
    IF IsEmptyFrame(related) /\ ~IsEmptyFrame(all_events)
       /\ "title" \in all_events.cols
    THEN Frame(all_events.cols, SelectSeq(all_events.rows, event_keyword_mask))
    ELSE related

\* The series ids embedded in the 'series' column of the gaming events.
EventSeriesIds(ev) ==
    IF ~IsEmptyFrame(ev) /\ "series" \in ev.cols
    THEN UNION {SeriesIds(ev.rows[i].series) : i \in 1..Len(ev.rows)}
    ELSE {}

\* series_df[series_df['id'].astype(str).isin(series_ids)]
GamingSeries(series, series_ids) ==
    IF series_ids # {} /\ series.exists
    THEN Frame(series.frame.cols,
               SelectSeq(series.frame.rows, LAMBDA r : PyStr(r.id) \in series_ids))
    ELSE EmptyFrame

AllEvents(snap) == IF snap.events.exists THEN snap.events.frame ELSE EmptyFrame

load_all_events(snap, df0) ==
    GamingEvents(AllEvents(snap), RelatedEvents(AllEvents(snap), MarketEventIds(df0)))

load_all_series(snap, ev) == GamingSeries(snap.series, EventSeriesIds(ev))

(***************************************************************************)
(* run_loader (main.py) and the steps of WarehouseLoader.load_all.         *)
(***************************************************************************)
\* Where the model lets create_schema_gaming fail: nowhere (0), at the
\* first DROP, at the last DROP, at the seed of dim_videojuego, and at the
\* last CREATE.
SchemaFaults ==
    {0, 1, Len(ManagedTables), Len(ManagedTables) + 3, Len(SchemaStatements)}

MaxRuns == 2

\* The database as the loader's methods take it.
D == [c |-> dbC, w |-> dbW]

\* SELECT COUNT(*) of every table (0 for a table that does not exist).
Counts(db) == [t \in TableNames |-> Len(db[t].rows)]

NoCall == [op |-> "none", batch |-> "", ok |-> TRUE, fault |-> FALSE,
           repeat |-> FALSE]

\* What the history keeps of a finished load_all: whether it completed, and
\* the row counts it left (kept only for a run that completed).
NoResult == [ok |-> FALSE, counts |-> Counts(EmptyDB)]

\* runs: finished run_loader calls; steps: the loader methods the current
\* load_all called, with their outcomes; before: the committed tables before
\* the last call; last_run, prev_run: the last two finished load_all runs;
\* calls, last: the direct calls made and the last of them.
NoHistory ==
    [runs |-> 0, steps |-> <<>>, before |-> EmptyDB, last_run |-> NoResult,
     prev_run |-> NoResult, calls |-> 0, last |-> NoCall]

\* Where load_all goes after a call in its try block: on to the next
\* statement, or out through "except: raise" and "finally: self.close()".
NextStepSwallow(ok, next) == next
NextStepNoFinally(ok, next) == IF ok THEN next ELSE "return"
NextStep(ok, next) == IF ok THEN next ELSE "finally"

\* A call of a loader method by load_all, with its result r = [ok, d].
DoCall(op, r, next) ==
    /\ dbC' = r.d.c
    /\ dbW' = r.d.w
    /\ exc' = ~r.ok
    /\ lpc' = NextStep(r.ok, next)
    /\ hist' = [hist EXCEPT !.steps = Append(@, [op |-> op, ok |-> r.ok]),
                            !.before = dbC]
    /\ UNCHANGED <<snapshot, conn, df, events_df, series_df, exit_code>>
    /\ UNCHANGED <<fvars, xvars>>

\* A call that load_all's "if not ....empty" guard skips.
Skip(next) ==
    /\ lpc' = next
    /\ UNCHANGED <<snapshot, dbC, dbW, conn, df, events_df, series_df, exc,
                   exit_code, hist>>
    /\ UNCHANGED <<fvars, xvars>>

\* loader = WarehouseLoader(DATABASE_URL); loader.connect()
\* fault: psycopg2.connect raises.  From "start" it is run_loader's call;
\* from "new" a caller that goes on to call the loader's methods itself.
Connect ==
    /\ lpc \in {"start", "new"}
    /\ lpc = "start" => hist.runs < MaxRuns
    /\ \E fault \in BOOLEAN :
          /\ conn' = IF fault THEN "none" ELSE "open"
          /\ exc' = (fault /\ lpc = "start")
          /\ lpc' = CASE lpc = "start" /\ fault -> "return"
                      [] lpc = "start" /\ ~fault -> "transform"
                      [] lpc = "new" /\ fault -> "new"
                      [] OTHER -> "ready"
    /\ dbW' = dbC
    /\ hist' = [hist EXCEPT !.steps = <<>>]
    /\ UNCHANGED <<snapshot, dbC, df, events_df, series_df, exit_code>>
    /\ UNCHANGED <<fvars, xvars>>

\* load_all [1/3]: pipeline_complete_gaming, "if df.empty: return", and the
\* selection of the related events and series.
LoadAllTransform ==
    /\ lpc = "transform"
    /\ df' = pipeline_complete_gaming(snapshot.markets)
    /\ events_df' = IF IsEmptyFrame(df') THEN EmptyFrame
                    ELSE load_all_events(snapshot, df')
    /\ series_df' = IF IsEmptyFrame(df') THEN EmptyFrame
                    ELSE load_all_series(snapshot, events_df')
    /\ lpc' = IF IsEmptyFrame(df') THEN "finally" ELSE "schema"
    /\ UNCHANGED <<snapshot, dbC, dbW, conn, exc, exit_code, hist>>
    /\ UNCHANGED <<fvars, xvars>>

\* load_all [2/3]: self.create_schema_gaming()
LoadAllSchema ==
    /\ lpc = "schema"
    /\ \E faultAt \in SchemaFaults :
          DoCall("create_schema_gaming", create_schema_gaming(D, faultAt), "serie")

\* load_all [3/3]: if not series_df.empty: self.load_dim_serie_gaming(series_df)
LoadAllSerie ==
    /\ lpc = "serie"
    /\ IF IsEmptyFrame(series_df) THEN Skip("evento")
       ELSE \E fault \in BOOLEAN :
               DoCall("load_dim_serie_gaming",
                      load_dim_serie_gaming(D, series_df, fault), "evento")

\* if not events_df.empty: self.load_dim_evento_gaming(events_df)
LoadAllEvento ==
    /\ lpc = "evento"
    /\ IF IsEmptyFrame(events_df) THEN Skip("tag")
       ELSE \E fault \in BOOLEAN :
               DoCall("load_dim_evento_gaming",
                      load_dim_evento_gaming(D, events_df, fault), "tag")

\* (same if block) self.load_dim_tag_gaming(events_df)
LoadAllTag ==
    /\ lpc = "tag"
    /\ IF IsEmptyFrame(events_df) THEN Skip("mercado")
       ELSE \E fault \in BOOLEAN :
               DoCall("load_dim_tag_gaming",
                      load_dim_tag_gaming(D, events_df, fault), "mercado")

\* self.load_dim_mercado_gaming(df)
LoadAllMercado ==
    /\ lpc = "mercado"
    /\ \E fault \in BOOLEAN :
          DoCall("load_dim_mercado_gaming",
                 load_dim_mercado_gaming(D, df, fault), "rel_me")

\* if not events_df.empty: self.load_relations_mercado_evento_gaming(df)
LoadAllRelME ==
    /\ lpc = "rel_me"
    /\ IF IsEmptyFrame(events_df) THEN Skip("rel_et")
       ELSE \E fault \in BOOLEAN :
               DoCall("load_relations_mercado_evento_gaming",
                      load_relations_mercado_evento_gaming(D, df, fault), "rel_et")

\* if not events_df.empty: self.load_relations_evento_tag_gaming(events_df)
LoadAllRelET ==
    /\ lpc = "rel_et"
    /\ IF IsEmptyFrame(events_df) THEN Skip("metricas")
       ELSE \E fault \in BOOLEAN :
               DoCall("load_relations_evento_tag_gaming",
                      load_relations_evento_tag_gaming(D, events_df, fault),
                      "metricas")

\* self.load_fact_metricas_gaming(df); generate_load_summary() only reads.
LoadAllMetricas ==
    /\ lpc = "metricas"
    /\ \E faultFecha \in BOOLEAN, fault \in BOOLEAN :
          DoCall("load_fact_metricas_gaming",
                 load_fact_metricas_gaming(D, df, faultFecha, fault), "finally")

\* finally: self.close() -- the server discards an open transaction.
LoadAllFinally ==
    /\ lpc = "finally"
    /\ conn' = "closed"
    /\ dbW' = dbC
    /\ lpc' = "return"
    /\ hist' = [hist EXCEPT
                   !.prev_run = hist.last_run,
                   !.last_run = IF exc THEN NoResult
                                ELSE [ok |-> TRUE, counts |-> Counts(dbC)]]
    /\ UNCHANGED <<snapshot, dbC, df, events_df, series_df, exc, exit_code>>
    /\ UNCHANGED <<fvars, xvars>>

\* run_loader returns True, or False from its except clause, and main
\* returns 0 or 1 on it; exit_code is "none" before, then "0" or "1".
RunLoaderReturn ==
    /\ lpc = "return"
    /\ exit_code' = IF exc THEN "1" ELSE "0"
    /\ hist' = [hist EXCEPT !.runs = @ + 1]
    /\ lpc' = "start"
    /\ UNCHANGED <<snapshot, dbC, dbW, conn, df, events_df, series_df, exc>>
    /\ UNCHANGED <<fvars, xvars>>

(***************************************************************************)
(* Direct calls of the loader's methods on an open connection.             *)
(***************************************************************************)
MaxCalls == 2

\* The caller's batch of cleaned markets df, once ("df") or twice over
\* ("df+df").
MarketsBatch(b) == IF b = "df" THEN df ELSE Frame(df.cols, df.rows \o df.rows)

\* A direct call with its result r = [ok, d].  next = "ready": the caller
\* goes on; "crashed": the exception ends the caller's process and the
\* server discards the open transaction.
DoFree(op, batch, fault, r, next) ==
    /\ dbC' = r.d.c
    /\ dbW' = IF next = "ready" THEN r.d.w ELSE r.d.c
    /\ conn' = IF next = "ready" THEN conn ELSE "closed"
    /\ lpc' = next
    /\ hist' = [hist EXCEPT
                   !.calls = @ + 1,
                   !.before = dbC,
                   !.last = [op |-> op, batch |-> batch, ok |-> r.ok,
                             fault |-> fault,
                             repeat |-> /\ hist.last.op = op
                                        /\ hist.last.batch = batch
                                        /\ hist.last.ok]]
    /\ UNCHANGED <<snapshot, df, events_df, series_df, exc, exit_code>>
    /\ UNCHANGED <<fvars, xvars>>

CanCall == lpc = "ready" /\ conn = "open" /\ hist.calls < MaxCalls

CallCreateSchema ==
    /\ CanCall
    /\ \E faultAt \in SchemaFaults :
          DoFree("create_schema_gaming", "", faultAt # 0,
                 create_schema_gaming(D, faultAt), "ready")

CallLoadDimSerie ==
    /\ CanCall
    /\ snapshot.series.exists
    /\ \E fault \in BOOLEAN :
          DoFree("load_dim_serie_gaming", "series", fault,
                 load_dim_serie_gaming(D, snapshot.series.frame, fault), "ready")

CallLoadDimEvento ==
    /\ CanCall
    /\ snapshot.events.exists
    /\ \E fault \in BOOLEAN :
          DoFree("load_dim_evento_gaming", "events", fault,
                 load_dim_evento_gaming(D, snapshot.events.frame, fault), "ready")

CallLoadDimTag ==
    /\ CanCall
    /\ snapshot.events.exists
    /\ \E fault \in BOOLEAN :
          DoFree("load_dim_tag_gaming", "events", fault,
                 load_dim_tag_gaming(D, snapshot.events.frame, fault), "ready")

CallLoadDimMercado ==
    /\ CanCall
    /\ \E b \in {"df", "df+df"}, fault \in BOOLEAN :
          DoFree("load_dim_mercado_gaming", b, fault,
                 load_dim_mercado_gaming(D, MarketsBatch(b), fault), "ready")

\* Called on the raw markets, which carry the 'events' column.
CallLoadRelME ==
    /\ CanCall
    /\ snapshot.markets.exists
    /\ \E fault \in BOOLEAN :
          DoFree("load_relations_mercado_evento_gaming", "markets", fault,
                 load_relations_mercado_evento_gaming(D, snapshot.markets.frame,
                                                      fault), "ready")

CallLoadRelET ==
    /\ CanCall
    /\ snapshot.events.exists
    /\ \E fault \in BOOLEAN :
          DoFree("load_relations_evento_tag_gaming", "events", fault,
                 load_relations_evento_tag_gaming(D, snapshot.events.frame,
                                                  fault), "ready")

\* _get_or_create_fecha has no handler: its exception reaches the caller
\* with the transaction open.
CallGetOrCreateFecha ==
    /\ CanCall
    /\ \E b \in {"df", "df+df"}, fault \in BOOLEAN :
          LET r == _get_or_create_fecha(D, BatchDates(MarketsBatch(b)), fault)
          IN  DoFree("_get_or_create_fecha", b, fault, r,
                     IF r.ok THEN "ready" ELSE "crashed")

CallLoadFactMetricas ==
    /\ CanCall
    /\ \E b \in {"df", "df+df"}, faultFecha \in BOOLEAN, fault \in BOOLEAN :
          DoFree("load_fact_metricas_gaming", b, faultFecha \/ fault,
                 load_fact_metricas_gaming(D, MarketsBatch(b), faultFecha, fault),
                 "ready")

\* The warehouse a complete load_all leaves on an empty database.
\* Each intermediate result is bound to its value once, as the local
\* variables of load_all are: Only({F(x) : x \in {e}}) is F(e).
Only(S) == CHOOSE x \in S : TRUE

Then(r, Op(_)) == Only({IF v.ok THEN Op(v.d) ELSE v : v \in {r}})

LoadedWarehouse(snap) ==
    LET same(d) == [ok |-> TRUE, d |-> d]
        Load(df0, ev, se) ==
            LET hasEv == ~IsEmptyFrame(ev)
                step1(d) == IF IsEmptyFrame(se) THEN same(d)
                            ELSE load_dim_serie_gaming(d, se, FALSE)
                step2(d) == IF hasEv THEN load_dim_evento_gaming(d, ev, FALSE)
                            ELSE same(d)
                step3(d) == IF hasEv THEN load_dim_tag_gaming(d, ev, FALSE)
                            ELSE same(d)
                step4(d) == load_dim_mercado_gaming(d, df0, FALSE)
                step5(d) == IF hasEv
                            THEN load_relations_mercado_evento_gaming(d, df0, FALSE)
                            ELSE same(d)
                step6(d) == IF hasEv
                            THEN load_relations_evento_tag_gaming(d, ev, FALSE)
                            ELSE same(d)
                step7(d) == load_fact_metricas_gaming(d, df0, FALSE, FALSE)
            IN  IF IsEmptyFrame(df0) THEN EmptyDB
                ELSE Then(Then(Then(Then(Then(Then(Then(
                         create_schema_gaming([c |-> EmptyDB, w |-> EmptyDB], 0),
                         step1), step2), step3), step4), step5), step6), step7).d.c
        Series(df0, ev) ==
            Only({Load(df0, ev, se) : se \in {load_all_series(snap, ev)}})
        Events(df0) ==
            Only({Series(df0, ev) : ev \in {load_all_events(snap, df0)}})
    IN  Only({Events(df0) : df0 \in {pipeline_complete_gaming(snap.markets)}})

(***************************************************************************)
(* Initial states.                                                         *)
(***************************************************************************)
MaxMarkets == 2

FetcherIdle ==
    /\ total = 0
    /\ threads = 1
    /\ page_size = 1
    /\ all_data = <<>>
    /\ offset = 0
    /\ batch_num = 0
    /\ batch_data = <<>>
    /\ futures = <<>>
    /\ fpc = "idle"
    /\ requested = <<>>
    /\ failedOffsets = {}
    /\ roundLens = <<>>

NoSnapshot ==
    [markets |-> NoDeltaTable, events |-> NoDeltaTable, series |-> NoDeltaTable]

LoaderIdle ==
    /\ snapshot = NoSnapshot
    /\ dbC = EmptyDB
    /\ dbW = EmptyDB
    /\ conn = "none"
    /\ lpc = "idle"
    /\ df = EmptyFrame
    /\ events_df = EmptyFrame
    /\ series_df = EmptyFrame
    /\ exc = FALSE
    /\ exit_code = "none"
    /\ hist = NoHistory

NoTransformerCall == [fn |-> "none"]
NoPhases == [extract |-> "none", transform |-> "none", validate |-> "none"]

OthersIdle ==
    /\ call = NoTransformerCall
    /\ vdb = <<>>
    /\ vpc = 0
    /\ all_valid = TRUE
    /\ vtx = "ok"
    /\ checks = <<>>
    /\ mpc = "idle"
    /\ phases = NoPhases

\* An earlier snapshot: one gaming market with every event and series.
PriorSnapshot ==
    [markets |-> DeltaTable(MarketCols, <<MarketCatalog[1]>>),
     events |-> DeltaTable(EventCols, EventCatalog),
     series |-> DeltaTable(SerieCols, SerieCatalog)]

\* run_loader, MaxRuns times over, on a snapshot of at most MaxMarkets
\* markets; the warehouse is empty or was loaded from an earlier snapshot.
InitLoadAll ==
    /\ FetcherIdle
    /\ OthersIdle
    /\ snapshot \in [markets : MarketTables(MaxMarkets), events : EventTables,
                     series : SerieTables]
    /\ dbC \in {EmptyDB, LoadedWarehouse(PriorSnapshot)}
    /\ dbW = dbC
    /\ conn = "none"
    /\ lpc = "start"
    /\ df = EmptyFrame
    /\ events_df = EmptyFrame
    /\ series_df = EmptyFrame
    /\ exc = FALSE
    /\ exit_code = "none"
    /\ hist = NoHistory

NextLoadAll ==
    \/ Connect
    \/ LoadAllTransform
    \/ LoadAllSchema
    \/ LoadAllSerie
    \/ LoadAllEvento
    \/ LoadAllTag
    \/ LoadAllMercado
    \/ LoadAllRelME
    \/ LoadAllRelET
    \/ LoadAllMetricas
    \/ LoadAllFinally
    \/ RunLoaderReturn

SpecLoadAll == InitLoadAll /\ [][NextLoadAll]_vars

\* At most MaxCalls direct calls on a warehouse that is empty, freshly
\* created, or loaded by load_all from the snapshot; df is the caller's
\* batch of cleaned markets.
InitLoader ==
    /\ FetcherIdle
    /\ OthersIdle
    /\ snapshot \in [markets : {DeltaTable(MarketCols, MarketCatalog),
                                DeltaTable(MarketCols, <<MarketCatalog[2],
                                                         MarketCatalog[5]>>)},
                     events : EventTables,
                     series : SerieTables]
    /\ dbC \in {EmptyDB,
                create_schema_gaming([c |-> EmptyDB, w |-> EmptyDB], 0).d.c,
                LoadedWarehouse(snapshot)}
    /\ dbW = dbC
    /\ conn = "none"
    /\ lpc = "new"
    /\ df = pipeline_complete_gaming(snapshot.markets)
    /\ events_df = EmptyFrame
    /\ series_df = EmptyFrame
    /\ exc = FALSE
    /\ exit_code = "none"
    /\ hist = NoHistory

NextLoader ==
    \/ Connect
    \/ CallCreateSchema
    \/ CallLoadDimSerie
    \/ CallLoadDimEvento
    \/ CallLoadDimTag
    \/ CallLoadDimMercado
    \/ CallLoadRelME
    \/ CallLoadRelET
    \/ CallGetOrCreateFecha
    \/ CallLoadFactMetricas

SpecLoader == InitLoader /\ [][NextLoader]_vars


(***************************************************************************)
(* PolymarketExtractor.fetch_page on the bodies a server can send.         *)
(***************************************************************************)
\* The dispatch of fetch_page on the decoded body.
RecordsOfBody(data, endpoint) ==
    CASE data.kind = "list" -> data
      [] data.kind = "object" ->
            IF "data" \in DOMAIN data.fields THEN data.fields["data"]
            ELSE IF endpoint \in DOMAIN data.fields THEN data.fields[endpoint]
            ELSE JList(<<data>>)
      [] OTHER -> JList(<<>>)

\* fetch_page: RecordsOfBody on success; [] on a RequestException or a
\* JSONDecodeError.
FetchPageBody(outcome, data, endpoint) ==
    IF outcome = "ok" THEN RecordsOfBody(data, endpoint) ELSE JList(<<>>)

Endpoints == {"events", "markets", "series", "tags"}

Rec(i) == JObject([id |-> JNum(i)])

ResponseBodies ==
    {JList(<<>>), JList(<<Rec(1)>>), JList(<<Rec(1), Rec(2)>>),
     JObject([data |-> JList(<<Rec(1)>>)]),
     JObject([data |-> JList(<<>>)]),
     JObject([data |-> JNull]),
     JObject([data |-> Rec(1)]),
     JObject([data |-> JStr("none")]),
     JObject([data |-> JList(<<Rec(1)>>), markets |-> JList(<<Rec(2)>>)]),
     JObject([markets |-> JList(<<Rec(1), Rec(2)>>)]),
     JObject([events |-> JList(<<Rec(2)>>), count |-> JNum(1)]),
     JObject([tags |-> JNull]),
     JObject([error |-> JStr("not found")]),
     Rec(1), JNull, JStr("ok"), JNum(5), JBool(TRUE)}

CallFetchPage ==
    /\ call.fn = "none"
    /\ \E outcome \in Outcomes, data \in ResponseBodies, e \in Endpoints :
           call' = [fn |-> "fetch_page",
                    arg |-> [outcome |-> outcome, data |-> data,
                             endpoint |-> e],
                    result |-> FetchPageBody(outcome, data, e)]
    /\ UNCHANGED <<vdb, vpc, all_valid, vtx, checks, mpc, phases>>
    /\ UNCHANGED <<fvars, lvars>>

(***************************************************************************)
(* Calls of the DataTransformer functions on raw values and raw batches.   *)
(***************************************************************************)
MaxBatch == 3
MaxLength == 6

RawStrings ==
    {"true", "True", "TRUE", "yes", "Yes", "1", "t", "T", "y", "Y", "si",
     "sí", "Sí", "SÍ", " yes ", "false", "False", "no", "NO", "0", "f", "n",
     "N", "maybe", "on", "2", "", " \t ", "abc",
     "1.234,56", "1,234.56", "1234.56", "1,234", "1.234.567,89",
     "1,234,567.89", "12,5", "-3.50", ".5", "7.", "inf", "1,2,3", "1.2.3",
     " a   b " \o SOH, "a " \o SOH \o " b", SOH, "a" \o SOH \o "b",
     "ab  cd", "x\ny", "abc def", "[0.45"}

RawValues ==
    {JNull, JBool(TRUE), JBool(FALSE), JNum(0), JNum(1), JNum(2),
     JDec(FALSE, 0, "5"), JDec(TRUE, 1, ""), JInf,
     JList(<<>>), JList(<<JNull>>), JList(<<JStr("0.45")>>),
     JList(<<JStr("0.45"), JStr("0.55")>>),
     JList(<<JNum(1), JStr(" yes "), JBool(TRUE), JDict("7", "Esports")>>),
     JsonText(JList(<<JStr("0.45"), JStr("x"), JNum(2)>>)),
     JsonText(JList(<<JStr(" Yes"), JStr(" NO"), JStr(""), JNull>>)),
     JsonText(JList(<<JStr("Esports"), JStr(" esports "), JStr("LoL")>>)),
     JsonText(JList(<<>>)), JsonText(JDict("7", "Esports")), JInvalid,
     JDict("7", "Esports")}
    \cup {JStr(x) : x \in RawStrings}

\* The values on which "pd.isna(value)" has an outcome in every numpy
\* release (see IsNaTruth).
ScalarInputs == RawValues \ {JList(<<>>)}

CleanerMarkets ==
    <<RawMarket(JStr("42"), JStr("Valorant game one?"), JNum(1),
                JStr("2024-01-05T10:00"), JNull),
      RawMarket(JStr("42"), JStr("Fortnite game two?"), JStr("1.234,56"),
                JStr("2024-01-06T10:00"), JNull),
      RawMarket(JStr("42"), JStr("Who wins the election?"), JNum(3),
                JStr("2024-01-07T10:00"), JNull),
      RawMarket(JStr("m5"), JStr("Will the Lakers win the NBA game tonight?"),
                JNum(4), JStr("2024-01-07T11:00"), JNull),
      RawMarket(JStr("m6"), JStr("Who tops the league?"), JNum(6),
                JStr("2024-01-08T11:00"), JNull),
      MarketCatalog[1], MarketCatalog[4], MarketCatalog[5]>>

CleanerEvents ==
    <<RawEvent(JStr("42"), JStr(" First  title"), JStr("x"), JNull),
      RawEvent(JStr("42"), JStr("Second title"),
               JsonText(JList(<<JStr("A"), JStr("a ")>>)), JNull),
      RawEvent(JNull, JStr("No id"), JNull, JNull),
      EventCatalog[1], EventCatalog[3], EventCatalog[4]>>

\* The batches of at most n records of a catalog, in every order.
Batches(catalog, n) ==
    UNION {[1..k -> Range(catalog)] : k \in 0..n}

DoTransformerCall(fn, arg, max_length, result) ==
    /\ call' = [fn |-> fn, arg |-> arg, max_length |-> max_length,
                result |-> result]
    /\ UNCHANGED <<vdb, vpc, all_valid, vtx, checks, mpc, phases>>
    /\ UNCHANGED <<fvars, lvars>>

CallNormalizeBoolean ==
    /\ call.fn = "none"
    /\ \E v \in ScalarInputs :
           DoTransformerCall("normalize_boolean", v, 0, normalize_boolean(v))

CallNormalizeNumeric ==
    /\ call.fn = "none"
    /\ \E v \in ScalarInputs :
           DoTransformerCall("normalize_numeric", v, 0, normalize_numeric(v))

CallCleanString ==
    /\ call.fn = "none"
    /\ \E v \in ScalarInputs, n \in (0..MaxLength) \cup {5000} :
           DoTransformerCall("clean_string", v, n, clean_string(v, n))

CallNormalizePrices ==
    /\ call.fn = "none"
    /\ \E v \in RawValues :
           DoTransformerCall("normalize_prices", v, 0, normalize_prices(v))

CallNormalizeOutcomes ==
    /\ call.fn = "none"
    /\ \E v \in RawValues :
           DoTransformerCall("normalize_outcomes", v, 0, normalize_outcomes(v))

CallParseTags ==
    /\ call.fn = "none"
    /\ \E v \in RawValues :
           DoTransformerCall("parse_tags", v, 0, parse_tags(v))

CallCleanEvents ==
    /\ call.fn = "none"
    /\ \E rows \in Batches(CleanerEvents, MaxBatch) :
           DoTransformerCall("validate_and_clean_events", Frame(EventCols, rows),
                             0, validate_and_clean_events(Frame(EventCols, rows)))

CallCleanMarkets ==
    /\ call.fn = "none"
    /\ \E rows \in Batches(CleanerMarkets, MaxBatch) :
           DoTransformerCall("validate_and_clean_markets",
                             Frame(MarketCols, rows), 0,
                             validate_and_clean_markets(Frame(MarketCols, rows)))

CallCleanGamingMarkets ==
    /\ call.fn = "none"
    /\ \E rows \in Batches(CleanerMarkets, MaxBatch) :
           DoTransformerCall("validate_and_clean_gaming_markets",
                             Frame(MarketCols, rows), 0,
                             validate_and_clean_gaming_markets(
                                 Frame(MarketCols, rows)))

(***************************************************************************)
(* The entity cleaners on batches with schema drift: a frame that lacks    *)
(* one of the columns, and values of another type than the column's usual  *)
(* one (a list, as Delta returns an array column).                         *)
(***************************************************************************)
DriftEvents ==
    <<EventCatalog[1],
      RawEvent(JStr("e8"), JStr(" Two  tags"),
               JList(<<JStr("Esports"), JStr("Dota 2")>>), JNull),
      RawEvent(JStr("e9"), JStr("One tag"), JList(<<JStr("Esports")>>), JNull)>>

DriftMarkets ==
    <<CleanerMarkets[1], CleanerMarkets[2],
      RawMarket(JStr("m8"), JStr("Dota game three?"),
                JList(<<JNum(1), JNum(2)>>), JStr("2024-01-09T10:00"), JNull)>>

\* The frames of at most MaxBatch records of a catalog over all the columns
\* or all but one.
DriftFrames(catalog, allCols) ==
    {Frame(cols, [i \in 1..Len(rows) |-> [c \in cols |-> rows[i][c]]]) :
        cols \in {allCols} \cup {allCols \ {c} : c \in allCols},
        rows \in Batches(catalog, MaxBatch)}

CleanEventsBatch ==
    /\ call.fn = "none"
    /\ \E frame \in DriftFrames(DriftEvents, EventCols) :
           DoTransformerCall("validate_and_clean_events", frame, 0,
                             validate_and_clean_events(frame))

CleanMarketsBatch ==
    /\ call.fn = "none"
    /\ \E frame \in DriftFrames(DriftMarkets, MarketCols) :
           DoTransformerCall("validate_and_clean_markets", frame, 0,
                             validate_and_clean_markets(frame))

CleanGamingMarketsBatch ==
    /\ call.fn = "none"
    /\ \E frame \in DriftFrames(DriftMarkets, MarketCols) :
           DoTransformerCall("validate_and_clean_gaming_markets", frame, 0,
                             validate_and_clean_gaming_markets(frame))

NextCleaners == CleanEventsBatch \/ CleanMarketsBatch \/ CleanGamingMarketsBatch

InitTransformer ==
    /\ FetcherIdle
    /\ LoaderIdle
    /\ OthersIdle

NextTransformer ==
    \/ CallNormalizeBoolean
    \/ CallNormalizeNumeric
    \/ CallCleanString
    \/ CallNormalizePrices
    \/ CallNormalizeOutcomes
    \/ CallParseTags
    \/ CallCleanEvents
    \/ CallCleanMarkets
    \/ CallCleanGamingMarkets

SpecTransformer == InitTransformer /\ [][NextTransformer]_vars

SpecCleaners == InitTransformer /\ [][NextCleaners]_vars

SpecFetchPage == InitTransformer /\ [][CallFetchPage]_vars

(***************************************************************************)
(* WarehouseValidator.validate_data_integrity.  The validator's tables are *)
(* [exists, rows]; a dimension row is [id], a fact row holds its two keys  *)
(* (NoId for NULL).  The connection is not in autocommit mode: after a     *)
(* statement has failed, every later statement of the transaction fails.   *)
(***************************************************************************)
\* unique_id_checks, in dictionary order.
unique_id_checks ==
    <<"dim_event", "dim_market", "dim_series", "dim_tag", "dim_date">>

\* The three orphan checks in program order: the fact table and the two
\* dimensions it is joined to, with the fact's key columns.
orphan_checks ==
    <<[fact |-> "fact_event_tag", k1 |-> "event_id", d1 |-> "dim_event",
       k2 |-> "tag_id", d2 |-> "dim_tag"],
      [fact |-> "fact_market_event", k1 |-> "market_id", d1 |-> "dim_market",
       k2 |-> "event_id", d2 |-> "dim_event"],
      [fact |-> "fact_market_metrics", k1 |-> "market_id", d1 |-> "dim_market",
       k2 |-> "date_id", d2 |-> "dim_date"]>>

\* The tables validate_schema expects, in the order of its dictionary.
expected_tables ==
    <<"dim_date", "dim_event", "dim_market", "dim_series", "dim_tag",
      "fact_event_tag", "fact_market_event", "fact_market_metrics",
      "fact_event_metrics">>

\* SELECT EXISTS (SELECT 1 FROM information_schema.tables
\*                WHERE table_name = t)
TableInSchema(db, t) == t \in DOMAIN db /\ db[t].exists

\* The tables named in the queries of validate_data_integrity.
QueriedTables ==
    Range(unique_id_checks)
        \cup UNION {{orphan_checks[i].fact, orphan_checks[i].d1,
                     orphan_checks[i].d2} : i \in 1..Len(orphan_checks)}

\* The tables create_schema_gaming creates.
CreatedTables ==
    {SchemaStatements[i].t :
         i \in {j \in 1..Len(SchemaStatements) : SchemaStatements[j].op = "create"}}

VReturn == Len(unique_id_checks) + Len(orphan_checks) + 1
VDone == VReturn + 1

VTable(rows) == [exists |-> TRUE, rows |-> rows]
VMissing == [exists |-> FALSE, rows |-> <<>>]
Dim(ids) == VTable([i \in 1..Len(ids) |-> [id |-> ids[i]]])

\* A warehouse in which every check passes.
GoodWarehouse ==
    [dim_event |-> Dim(<<1, 2>>), dim_market |-> Dim(<<1>>),
     dim_series |-> Dim(<<>>), dim_tag |-> Dim(<<1>>), dim_date |-> Dim(<<1>>),
     fact_event_tag |-> VTable(<<[event_id |-> 1, tag_id |-> 1]>>),
     fact_market_event |-> VTable(<<[market_id |-> 1, event_id |-> 2]>>),
     fact_market_metrics |-> VTable(<<[market_id |-> 1, date_id |-> 1]>>)]

ValidatorWarehouses ==
    {GoodWarehouse,
     [GoodWarehouse EXCEPT !.dim_tag = Dim(<<1, 1>>)],
     [GoodWarehouse EXCEPT !.dim_date = Dim(<<1, NoId>>)],
     [GoodWarehouse EXCEPT !.fact_market_event =
          VTable(<<[market_id |-> 1, event_id |-> 3]>>)],
     [GoodWarehouse EXCEPT !.fact_market_metrics =
          VTable(<<[market_id |-> NoId, date_id |-> 1]>>)],
     [GoodWarehouse EXCEPT !.dim_series = VMissing],
     [GoodWarehouse EXCEPT !.fact_event_tag = VMissing],
     [GoodWarehouse EXCEPT !.fact_market_metrics = VMissing],
     [t \in DOMAIN GoodWarehouse |-> VMissing]}

\* cursor.execute raises: the transaction is already aborted, a table of
\* the statement does not exist, or the server or the network fails.
ExecuteRaises(tables, fault) ==
    vtx = "aborted" \/ fault \/ \E t \in tables : ~vdb[t].exists

\* SELECT COUNT(DISTINCT id), COUNT(*) FROM table
DistinctAndTotal(t) ==
    [distinct |-> Cardinality({vdb[t].rows[i].id :
                                   i \in 1..Len(vdb[t].rows)} \ {NoId}),
     total |-> Len(vdb[t].rows)]

\* SELECT COUNT(*) FROM fact LEFT JOIN d1 .. LEFT JOIN d2 ..
\* WHERE d1.key IS NULL OR d2.key IS NULL
Orphaned(c) ==
    LET ids(d) == {vdb[d].rows[i].id : i \in 1..Len(vdb[d].rows)} \ {NoId}
    IN  Cardinality({i \in 1..Len(vdb[c.fact].rows) :
                        \/ vdb[c.fact].rows[i][c.k1] \notin ids(c.d1)
                        \/ vdb[c.fact].rows[i][c.k2] \notin ids(c.d2)})

\* One iteration of "for table, id_col in unique_id_checks.items()".
CheckUniqueIds ==
    /\ vpc \in 1..Len(unique_id_checks)
    /\ \E fault \in BOOLEAN :
         LET t      == unique_id_checks[vpc]
             raised == ExecuteRaises({t}, fault)
             found  == ~raised /\ DistinctAndTotal(t).distinct
                                     # DistinctAndTotal(t).total
         IN  /\ all_valid' = (all_valid /\ ~raised /\ ~found)
             /\ vtx' = IF raised THEN "aborted" ELSE vtx
             /\ checks' = Append(checks, [check |-> t, raised |-> raised,
                                           found |-> found])
    /\ vpc' = vpc + 1
    /\ UNCHANGED <<call, vdb, mpc, phases>>
    /\ UNCHANGED <<fvars, lvars>>

\* One of the three try blocks that count the orphaned relations.
CheckOrphans ==
    /\ vpc \in (Len(unique_id_checks) + 1)
                 ..(Len(unique_id_checks) + Len(orphan_checks))
    /\ \E fault \in BOOLEAN :
         LET c      == orphan_checks[vpc - Len(unique_id_checks)]
             raised == ExecuteRaises({c.fact, c.d1, c.d2}, fault)
             found  == ~raised /\ Orphaned(c) # 0
         IN  \* the except clause only logs: all_valid keeps its value
             /\ all_valid' = IF raised THEN all_valid
                              ELSE all_valid /\ ~found
             /\ vtx' = IF raised THEN "aborted" ELSE vtx
             /\ checks' = Append(checks, [check |-> c.fact, raised |-> raised,
                                           found |-> found])
    /\ vpc' = vpc + 1
    /\ UNCHANGED <<call, vdb, mpc, phases>>
    /\ UNCHANGED <<fvars, lvars>>

\* return all_valid
ValidateReturn ==
    /\ vpc = VReturn
    /\ vpc' = VDone
    /\ UNCHANGED <<call, vdb, all_valid, vtx, checks, mpc, phases>>
    /\ UNCHANGED <<fvars, lvars>>

\* validator.connect(); validator.validate_data_integrity()
InitValidator ==
    /\ FetcherIdle
    /\ LoaderIdle
    /\ call = NoTransformerCall
    /\ vdb \in ValidatorWarehouses
    /\ vpc = 1
    /\ all_valid = TRUE
    /\ vtx = "ok"
    /\ checks = <<>>
    /\ mpc = "idle"
    /\ phases = NoPhases

NextValidator == CheckUniqueIds \/ CheckOrphans \/ ValidateReturn

SpecValidator == InitValidator /\ [][NextValidator]_vars

(***************************************************************************)
(* main: the orchestrator.  mpc is its position ("idle" when it is not     *)
(* running), phases the value each run_* function returned: "ok" for True, *)
(* "failed" for False, "skipped" for a phase main did not call.            *)
(***************************************************************************)
Snapshots ==
    [markets : MarketTables(MaxMarkets), events : EventTables,
     series : SerieTables]

\* any((datalake/raw/folder).exists() for folder in expected_folders);
\* tags: the fourth folder, which the loader never reads.
check_datalake_exists(tags) ==
    \/ tags
    \/ snapshot.markets.exists
    \/ snapshot.events.exists
    \/ snapshot.series.exists

\* if not check_datalake_exists(): ... else: "Saltando extracción"
MainCheckDatalake ==
    /\ mpc = "check"
    /\ \E tags \in BOOLEAN :
         IF check_datalake_exists(tags)
         THEN /\ mpc' = "transform"
              /\ phases' = [phases EXCEPT !.extract = "skipped"]
         ELSE /\ mpc' = "extract"
              /\ phases' = phases
    /\ UNCHANGED <<call, vdb, vpc, all_valid, vtx, checks>>
    /\ UNCHANGED <<fvars, lvars>>

\* run_extractor: the subprocess exits with 0 and leaves a snapshot, or it
\* exits with another code (or cannot be started) and main returns 1.
RunExtractor ==
    /\ mpc = "extract"
    /\ \/ /\ snapshot' \in Snapshots
          /\ phases' = [phases EXCEPT !.extract = "ok"]
          /\ mpc' = "transform"
          /\ exit_code' = exit_code
       \/ /\ snapshot' = snapshot
          /\ phases' = [phases EXCEPT !.extract = "failed"]
          /\ mpc' = "done"
          /\ exit_code' = "1"
    /\ UNCHANGED <<dbC, dbW, conn, lpc, df, events_df, series_df, exc, hist>>
    /\ UNCHANGED <<call, vdb, vpc, all_valid, vtx, checks>>
    /\ UNCHANGED fvars

\* run_transformer: the frames it reads and cleans are locals it drops, and
\* an exception of a read or of a cleaner is logged as a warning inside; it
\* returns False on an exception outside these blocks only (fault).
RunTransformer ==
    /\ mpc = "transform"
    /\ \E fault \in BOOLEAN :
         /\ phases' = [phases EXCEPT
                          !.transform = IF fault THEN "failed" ELSE "ok"]
         /\ mpc' = IF fault THEN "done" ELSE "validate"
         /\ exit_code' = IF fault THEN "1" ELSE exit_code
    /\ UNCHANGED <<snapshot, dbC, dbW, conn, lpc, df, events_df, series_df,
                   exc, hist>>
    /\ UNCHANGED <<call, vdb, vpc, all_valid, vtx, checks>>
    /\ UNCHANGED fvars

\* run_validator returns False when DATABASE_URL is missing or connect
\* raises (fault); main logs a warning and goes on to call run_loader.
RunValidator ==
    /\ mpc = "validate"
    /\ \E fault \in BOOLEAN :
         phases' = [phases EXCEPT
                       !.validate = IF fault THEN "failed" ELSE "ok"]
    /\ mpc' = "load"
    /\ lpc' = "start"
    /\ UNCHANGED <<snapshot, dbC, dbW, conn, df, events_df, series_df, exc,
                   exit_code, hist>>
    /\ UNCHANGED <<call, vdb, vpc, all_valid, vtx, checks>>
    /\ UNCHANGED fvars

\* if not run_loader(): return 1
MainConnect ==
    /\ mpc = "load"
    /\ exit_code = "none"
    /\ Connect

\* main's return after run_loader returned.
MainReturn ==
    /\ mpc = "load"
    /\ exit_code # "none"
    /\ mpc' = "done"
    /\ UNCHANGED <<call, vdb, vpc, all_valid, vtx, checks, phases>>
    /\ UNCHANGED <<fvars, lvars>>

InitMain ==
    /\ FetcherIdle
    /\ call = NoTransformerCall
    /\ vdb = <<>>
    /\ vpc = 0
    /\ all_valid = TRUE
    /\ vtx = "ok"
    /\ checks = <<>>
    /\ mpc = "check"
    /\ phases = NoPhases
    /\ snapshot \in Snapshots
    /\ dbC = EmptyDB
    /\ dbW = EmptyDB
    /\ conn = "none"
    /\ lpc = "idle"
    /\ df = EmptyFrame
    /\ events_df = EmptyFrame
    /\ series_df = EmptyFrame
    /\ exc = FALSE
    /\ exit_code = "none"
    /\ hist = NoHistory

NextMain ==
    \/ MainCheckDatalake
    \/ RunExtractor
    \/ RunTransformer
    \/ RunValidator
    \/ MainConnect
    \/ LoadAllTransform
    \/ LoadAllSchema
    \/ LoadAllSerie
    \/ LoadAllEvento
    \/ LoadAllTag
    \/ LoadAllMercado
    \/ LoadAllRelME
    \/ LoadAllRelET
    \/ LoadAllMetricas
    \/ LoadAllFinally
    \/ RunLoaderReturn
    \/ MainReturn

SpecMain == InitMain /\ [][NextMain]_vars

(***************************************************************************)
(* Specifications.                                                         *)
(***************************************************************************)
InitFetch ==
    /\ total \in 0..MaxRecords
    /\ threads \in 1..MaxThreads
    /\ page_size \in 1..MaxPageSize
    /\ all_data = <<>>
    /\ offset = 0
    /\ batch_num = 0
    /\ batch_data = <<>>
    /\ futures = <<>>
    /\ fpc = "loop"
    /\ requested = <<>>
    /\ failedOffsets = {}
    /\ roundLens = <<>>
    /\ LoaderIdle
    /\ OthersIdle

NextFetch == SubmitRound \/ FetchPageReturns \/ AsCompleted \/ EndRound

SpecFetch == InitFetch /\ [][NextFetch]_vars

(***************************************************************************)
(* Properties of the fetcher.                                              *)
(***************************************************************************)
NoFailure == failedOffsets = {}

Count(s, r) == Cardinality({i \in 1..Len(s) : s[i] = r})

FullRound == threads * page_size

\* C1: when no page request fails, extract_endpoint_parallel terminates (it
\* is never stuck before it is done and runs at most T/(N*pageSize)+1
\* rounds) and returns each of the T records exactly once.
C1_ReturnsEveryRecordOnce ==
    NoFailure =>
        /\ Len(requested) <= (total \div FullRound) + 1
        /\ (fpc # "done" => ENABLED NextFetch)
        /\ (fpc = "done" =>
               /\ Len(all_data) = total
               /\ \A r \in 0..(total - 1) : Count(all_data, r) = 1)

C1_Witness ==
    /\ fpc = "done" /\ NoFailure
    /\ total >= 3 /\ threads = 2 /\ Len(roundLens) >= 2
    /\ Len(all_data) = total

\* C2: the fetch stops right after the first round that yields fewer than
\* N*pageSize records (zero included) and dispatches nothing after it; after
\* a round of exactly N*pageSize records the next round is dispatched; with
\* page size 2, 2 threads and 3 records it returns 3 records in fewer than
\* three rounds.
C2_StopsAfterFirstShortRound ==
    /\ \A k \in 1..Len(roundLens) :
           roundLens[k] < FullRound => (k = Len(roundLens) /\ fpc = "done")
    /\ (fpc = "done" => Len(requested) = Len(roundLens))
    /\ (Len(roundLens) > 0 /\ roundLens[Len(roundLens)] = FullRound =>
           \/ fpc = "loop" /\ ENABLED SubmitRound
           \/ fpc = "collect" /\ Len(requested) = Len(roundLens) + 1)
    /\ (page_size = 2 /\ threads = 2 /\ total = 3 /\ NoFailure =>
           /\ Len(requested) < 3
           /\ (fpc = "done" => Len(all_data) = 3))

C2_Witness ==
    /\ fpc = "done"
    /\ Len(roundLens) = 2
    /\ roundLens[1] = FullRound
    /\ roundLens[2] < FullRound
    /\ threads = 2 /\ page_size = 2

\* C3 (as claimed): a failed page request costs only the records of its own
\* offset; the records served at every other offset of the collection are
\* still fetched and returned.
C3_FailedPageCostsOnlyItsOffset ==
    fpc = "done" =>
        \A r \in 0..(total - 1) :
            ((r \div page_size) * page_size) \notin failedOffsets
                => r \in Range(all_data)

\* C21: no request of the next round is issued before every request of the
\* current round has completed: at most N requests are in flight, all of
\* them at offsets of the round submitted last, and none while the loop is
\* about to submit a round or has ended.
InFlight == {o \in DOMAIN futures : futures[o].st = "running"}

C21_RoundsAreSequential ==
    /\ Cardinality(InFlight) <= threads
    /\ InFlight # {} =>
           /\ fpc = "collect"
           /\ InFlight \subseteq Range(requested[Len(requested)])
    /\ fpc \in {"loop", "done"} => InFlight = {}

C21_Witness ==
    /\ Len(requested) = 2
    /\ threads = 2
    /\ Cardinality(InFlight) = 1
    /\ \E o \in DOMAIN futures : futures[o].st = "finished"

\* C22: every offset is requested at most once in a run, a failed one
\* included; round k (from 0) requests exactly the offsets
\* k*N*pageSize + i*pageSize, i = 0..N-1, so the requested pages tile the
\* range from 0 to the last requested offset without overlap or gap.
RequestedOffsets == Flatten(requested)

C22_OffsetsRequestedOnce ==
    /\ \A k \in 1..Len(requested) :
           requested[k] = [i \in 1..threads |->
                              (k - 1) * threads * page_size
                                  + (i - 1) * page_size]
    /\ \A i, j \in 1..Len(RequestedOffsets) :
           RequestedOffsets[i] = RequestedOffsets[j] => i = j
    /\ Range(RequestedOffsets)
           = {j * page_size : j \in 0..(Len(requested) * threads - 1)}
    /\ failedOffsets \subseteq Range(RequestedOffsets)

C22_Witness ==
    /\ fpc = "done"
    /\ Len(requested) = 2
    /\ threads = 2
    /\ failedOffsets # {}
    /\ Len(all_data) > FullRound

\* The API content of the check of C23: the record at position 1 has the
\* id of the record at position 0 and another field value.
ApiRecord(pos) == [id |-> IF pos = 1 THEN 0 ELSE pos, value |-> pos]
ApiRecords(positions) == [i \in 1..Len(positions) |-> ApiRecord(positions[i])]

\* C23: for a fixed API content and no failed request, the batch fetched and
\* then deduplicated by id (keep first) holds the same rows for every
\* completion order of the requests of a round: the rows it holds when the
\* pages complete in the order of their offsets.
C23_CleanedBatchIsOrderIndependent ==
    fpc = "done" /\ NoFailure =>
        Range(drop_duplicates(ApiRecords(all_data)))
            = Range(drop_duplicates(ApiRecords(ServerPage(total, 0, total))))

(***************************************************************************)
(* Properties of the loader.                                               *)
(***************************************************************************)
FactTables ==
    {"fact_mercado_evento_gaming", "fact_evento_tag_gaming",
     "fact_metricas_gaming"}

\* Every row of every fact table names, in each of its reference columns, a
\* key that its dimension table holds.
NoOrphans(db) ==
    \A t \in FactTables :
        \A i \in 1..Len(db[t].rows) :
            \A fk \in ForeignKeys(t) :
                /\ ~IsNullCell(fk.col, db[t].rows[i][fk.col])
                /\ db[t].rows[i][fk.col] \in SelectCol(db, fk.ref, fk.refcol)

AllTablesExist(db) == \A t \in TableNames : db[t].exists

RelationLoads ==
    {"load_relations_mercado_evento_gaming", "load_relations_evento_tag_gaming"}

\* The candidate pairs of the raw markets whose market is loaded and whose
\* event is not.
DanglingCandidates ==
    {k \in 1..Len(MercadoEventoCandidates(snapshot.markets.frame)) :
        LET cand == MercadoEventoCandidates(snapshot.markets.frame)[k] IN
        /\ cand.mercado_id \in SelectCol(dbC, "dim_mercado_gaming", "mercado_id")
        /\ cand.evento_id \notin SelectCol(dbC, "dim_evento_gaming", "evento_id")}

\* C4: every row of the three fact tables references keys that exist in
\* their dimension tables, in a warehouse that load_all loaded and after any
\* direct call; and a relation load on a created schema drops the candidates
\* whose market, event or tag is not loaded instead of failing on them: it
\* raises only when the server does.
C4_NoOrphanFactRows ==
    /\ NoOrphans(dbC)
    /\ NoOrphans(dbW)
    /\ (/\ hist.last.op \in RelationLoads
        /\ ~hist.last.fault
        /\ AllTablesExist(hist.before)) => hist.last.ok

\* A relation load that inserted the pairs of loaded events and dropped the
\* pair of a loaded market with an event that is not in dim_evento_gaming.
C4_Witness ==
    /\ hist.last.op = "load_relations_mercado_evento_gaming"
    /\ hist.last.ok
    /\ ~hist.last.fault
    /\ snapshot.markets.exists
    /\ DanglingCandidates # {}
    /\ Len(dbC["fact_mercado_evento_gaming"].rows)
         > Len(hist.before["fact_mercado_evento_gaming"].rows)

\* C5: when two load_all runs in a row on the same snapshot both complete,
\* every table has after the second run the row count it had after the
\* first.
C5_SecondRunKeepsCounts ==
    (hist.prev_run.ok /\ hist.last_run.ok)
        => hist.last_run.counts = hist.prev_run.counts

\* Two completed runs that loaded events, tags, markets and metrics.
C5_Witness ==
    /\ hist.prev_run.ok
    /\ hist.last_run.ok
    /\ hist.last_run.counts["fact_metricas_gaming"] > 1
    /\ hist.last_run.counts["dim_evento_gaming"] > 1
    /\ hist.last_run.counts["fact_evento_tag_gaming"] > 1
    /\ hist.last_run.counts["dim_fecha"] > 1

\* The dimension tables with the key column the loads insert on.
DimKeys ==
    {<<"dim_serie_gaming", "serie_id">>, <<"dim_evento_gaming", "evento_id">>,
     <<"dim_tag_gaming", "tag_nombre">>, <<"dim_mercado_gaming", "mercado_id">>,
     <<"dim_fecha", "fecha">>}

DimLoads ==
    {"load_dim_serie_gaming", "load_dim_evento_gaming", "load_dim_tag_gaming",
     "load_dim_mercado_gaming", "_get_or_create_fecha"}

KeysUnique(db) ==
    \A tk \in DimKeys :
        \A i, j \in 1..Len(db[tk[1]].rows) :
            db[tk[1]].rows[i][tk[2]] = db[tk[1]].rows[j][tk[2]] => i = j

SameRows(db1, db2) == \A t \in TableNames : db1[t].rows = db2[t].rows

\* C6: no dimension table holds two rows with the same key, whatever the
\* dimension loads and their batches; and a dimension load repeated right
\* after it succeeded, with the same batch, succeeds again and leaves the
\* rows of every table as they were.
C6_DimensionKeysUnique ==
    /\ KeysUnique(dbC)
    /\ KeysUnique(dbW)
    /\ (/\ hist.last.op \in DimLoads
        /\ hist.last.repeat
        /\ ~hist.last.fault) => (hist.last.ok /\ SameRows(dbC, hist.before))

\* load_dim_evento_gaming repeated with a batch that names one event twice.
C6_Witness ==
    /\ hist.last.op = "load_dim_evento_gaming"
    /\ hist.last.repeat
    /\ hist.last.ok
    /\ snapshot.events = DeltaTable(EventCols, EventCatalog)
    /\ Len(dbC["dim_evento_gaming"].rows) > 1

\* C7: fact_metricas_gaming never holds two rows with the same
\* (mercado_id, fecha_id).
C7_OneSnapshotPerMarketAndDate ==
    \A i, j \in 1..Len(dbC["fact_metricas_gaming"].rows) :
        LET ri == dbC["fact_metricas_gaming"].rows[i]
            rj == dbC["fact_metricas_gaming"].rows[j]
        IN  (ri.mercado_id = rj.mercado_id /\ ri.fecha_id = rj.fecha_id) => i = j

\* C8: every row of dim_mercado_gaming has a videojuego_id, and it is the id
\* of a row of dim_videojuego.
C8_EveryMarketHasVideojuego ==
    \A i \in 1..Len(dbC["dim_mercado_gaming"].rows) :
        /\ dbC["dim_mercado_gaming"].rows[i].videojuego_id # NoId
        /\ dbC["dim_mercado_gaming"].rows[i].videojuego_id
               \in SelectCol(dbC, "dim_videojuego", "videojuego_id")

\* The table a load method inserts into.
TableOf(op) ==
    CASE op = "load_dim_serie_gaming" -> "dim_serie_gaming"
      [] op = "load_dim_evento_gaming" -> "dim_evento_gaming"
      [] op = "load_dim_tag_gaming" -> "dim_tag_gaming"
      [] op = "load_dim_mercado_gaming" -> "dim_mercado_gaming"
      [] op = "load_relations_mercado_evento_gaming" -> "fact_mercado_evento_gaming"
      [] op = "load_relations_evento_tag_gaming" -> "fact_evento_tag_gaming"
      [] op = "load_fact_metricas_gaming" -> "fact_metricas_gaming"

\* The steps of the current load_all at which a load_* method raised.
FailedLoads ==
    {i \in 1..Len(hist.steps) :
        ~hist.steps[i].ok /\ hist.steps[i].op # "create_schema_gaming"}

SchemaFailed ==
    /\ hist.steps # <<>>
    /\ hist.steps[1].op = "create_schema_gaming"
    /\ ~hist.steps[1].ok

\* C10: when create_schema_gaming fails, the committed tables are what they
\* were before the call, load_all calls no load_* method, the exception
\* leaves load_all, and the pipeline exits with code 1.
C10_SchemaFailureIsFatal ==
    SchemaFailed =>
        /\ Len(hist.steps) = 1
        /\ dbC = hist.before
        /\ exc
        /\ lpc \in {"finally", "return", "start"}
        /\ lpc = "start" => exit_code = "1"

\* The schema failed in a run on a warehouse that an earlier run loaded.
C10_Witness ==
    /\ SchemaFailed
    /\ (hist.prev_run.ok \/ hist.last_run.ok)
    /\ Len(dbC["dim_mercado_gaming"].rows) > 0
    /\ Len(dbC["fact_metricas_gaming"].rows) > 0
    /\ lpc = "start"
    /\ exit_code = "1"

(***************************************************************************)
(* Properties of the cleaner.                                              *)
(***************************************************************************)
Cleaners ==
    {"validate_and_clean_events", "validate_and_clean_markets",
     "validate_and_clean_gaming_markets"}

\* The record passes the subset filter of the cleaner that was called.
InSubset(r) ==
    call.fn = "validate_and_clean_gaming_markets" => gaming_mask(r.question)

\* The position of the first record with this id that passes the filter.
FirstWithId(rows, id) ==
    CHOOSE i \in 1..Len(rows) :
        /\ InSubset(rows[i]) /\ rows[i].id = id
        /\ \A j \in 1..(i - 1) : ~(InSubset(rows[j]) /\ rows[j].id = id)

TextCol == IF call.fn = "validate_and_clean_events" THEN "title" ELSE "question"
TextLimit ==
    IF call.fn = "validate_and_clean_gaming_markets" THEN 500 ELSE 2048

TrueTokens == {"true", "yes", "1", "t", "y", "si", "sí"}
FalseTokens == {"false", "no", "0", "f", "n"}

\* C12: normalize_boolean returns true for native true, numeric 1 and the
\* tokens true/yes/1/t/y/si/sí in any letter case, false for native false,
\* numeric 0 and the tokens false/no/0/f/n in any letter case, and null for
\* every other input, every number other than 0 and 1 included.  (Stated
\* of the calls that return; white space around a token is not held
\* against the code.)
C12_BooleanTokens ==
    call.fn = "normalize_boolean" /\ call.result.kind # "raise" =>
        call.result =
            CASE call.arg.kind = "bool" -> call.arg
              [] call.arg = JNum(1) -> JBool(TRUE)
              [] call.arg = JNum(0) -> JBool(FALSE)
              [] call.arg.kind = "str"
                 /\ Lower(Strip(call.arg.s)) \in TrueTokens -> JBool(TRUE)
              [] call.arg.kind = "str"
                 /\ Lower(Strip(call.arg.s)) \in FalseTokens -> JBool(FALSE)
              [] OTHER -> JNull

\* The text that the rule of C13 hands to the float parser: with both
\* separators present the rightmost one is the decimal point and the other
\* one is removed; commas without a dot are removed.
RightmostIsDecimal(v) ==
    IF CountChar(v, ".") > 0 /\ CountChar(v, ",") > 0
    THEN IF RFind(v, ",") > RFind(v, ".")
         THEN Replace(Replace(v, ".", ""), ",", ".")
         ELSE Replace(v, ",", "")
    ELSE Replace(v, ",", "")

\* C13: normalize_numeric returns 1234.56 for "1.234,56" and for "1,234.56"
\* and null for "abc"; for a string with both '.' and ',' the rightmost
\* separator is the decimal point and the other one a grouping separator;
\* commas without a dot are thousands separators.
C13_DecimalFormats ==
    call.fn = "normalize_numeric" /\ call.arg.kind = "str" =>
        /\ call.arg.s \in {"1.234,56", "1,234.56"} =>
               call.result = JDec(FALSE, 1234, "56")
        /\ call.arg.s = "abc" => call.result = JNull
        /\ LET parsed == PyFloat(RightmostIsDecimal(Strip(call.arg.s)))
           IN  call.result = IF parsed.kind = "raise" THEN JNull ELSE parsed

\* C14: a non-null result of clean_string has no leading or trailing white
\* space, no run of two or more spaces, no control character other than
\* newline, tab and carriage return, and at most max_length characters; an
\* input that is empty after cleaning gives null; clean_string(" a   b \x01")
\* is "a b".
C14_CleanStringCanonical ==
    call.fn = "clean_string" /\ call.result.kind = "str" =>
        LET r == call.result.s IN
        /\ r # ""
        /\ Strip(r) = r
        /\ ~Contains(r, "  ")
        /\ \A i \in 1..Len(r) : ~IsRemovedControl(SubSeq(r, i, i))
        /\ Len(r) <= call.max_length
        /\ call.arg = JStr(" a   b " \o SOH) /\ call.max_length = 5000 =>
               r = "a b"

Normalizers ==
    {"normalize_boolean", "normalize_numeric", "clean_string",
     "normalize_prices", "normalize_outcomes", "parse_tags"}

\* C15: the six normalizers raise no exception for any raw value (null,
\* boolean, finite or non-finite number, string, list, object): each
\* returns a canonical value or null.
C15_NormalizersNeverRaise ==
    call.fn \in Normalizers => call.result.kind # "raise"

(***************************************************************************)
(* Properties of fetch_page.                                               *)
(***************************************************************************)
\* C16: fetch_page turns a decoded body into a record list by one dispatch:
\* a bare array gives its elements; an object with a data key gives the
\* list under data; otherwise an object with a key equal to the entity name
\* gives the list under that key; any other body (an object with neither
\* key, a value that is neither array nor object) gives a one-element list
\* holding the body.  The result is always a list.
C16_BodyDispatch ==
    call.fn = "fetch_page" /\ call.arg.outcome = "ok" =>
        LET data == call.arg.data IN
        /\ call.result.kind = "list"
        /\ call.result =
              CASE data.kind = "list" -> data
                [] data.kind = "object" /\ "data" \in DOMAIN data.fields ->
                      data.fields["data"]
                [] data.kind = "object" /\ "data" \notin DOMAIN data.fields
                   /\ call.arg.endpoint \in DOMAIN data.fields ->
                      data.fields[call.arg.endpoint]
                [] OTHER -> JList(<<data>>)

(***************************************************************************)
(* Properties of the gaming classification.                                *)
(***************************************************************************)
\* The entry g of the game table has a keyword that occurs in q.
EntryMatches(g, q) ==
    \E k \in 1..Len(game_mapping[g].keywords) :
        Contains(q, game_mapping[g].keywords[k])

ExampleQuestion == "Who will win the Valorant Champions grand final?"

\* C17: for every market of the gaming subset, game_type is the game of
\* the first entry, in table order, of the game table that has a keyword
\* occurring in the lower-cased question, "Gaming" when no entry matches
\* but game or gaming occurs, and null otherwise; the example question gets
\* game_type "Valorant" and bet_type "Match Winner".
C17_FirstMatchingGame ==
    call.fn = "validate_and_clean_gaming_markets" =>
        \A k \in 1..Len(call.result.rows) :
            LET row == call.result.rows[k]
                src == call.arg.rows[FirstWithId(call.arg.rows, row.id)]
                q   == Lower(src.question.s)
            IN  /\ \A g \in 1..Len(game_mapping) :
                       EntryMatches(g, q)
                       /\ (\A h \in 1..(g - 1) : ~EntryMatches(h, q))
                       => row.gaming_type = JStr(game_mapping[g].game)
                /\ (\A g \in 1..Len(game_mapping) : ~EntryMatches(g, q))
                   => row.gaming_type =
                          IF Contains(q, "game") \/ Contains(q, "gaming")
                          THEN JStr("Gaming") ELSE JNull
                /\ src.question = JStr(ExampleQuestion)
                   => /\ row.gaming_type = JStr("Valorant")
                      /\ row.bet_type = JStr("Match Winner")

C17_Witness ==
    /\ call.fn = "validate_and_clean_gaming_markets"
    /\ \E k \in 1..Len(call.result.rows) :
           /\ call.result.rows[k].question = JStr(ExampleQuestion)
           /\ call.result.rows[k].gaming_type = JStr("Valorant")
    /\ \E k \in 1..Len(call.result.rows) :
           call.result.rows[k].gaming_type = JStr("Gaming")
    /\ \E k \in 1..Len(call.result.rows) :
           call.result.rows[k].gaming_type = JNull

\* C18: the gaming subset holds no market whose question contains a keyword
\* of the exclusion list (politics, traditional sports such as nba, nfl),
\* also when the question matches an inclusion keyword; "Will the Lakers
\* win the NBA finals?" is not in the subset.
C18_ExclusionListApplies ==
    call.fn = "validate_and_clean_gaming_markets" =>
        \A k \in 1..Len(call.result.rows) :
            LET q == Lower(call.result.rows[k].question.s)
            IN  /\ \A x \in 1..Len(exclude_kws) : ~Contains(q, exclude_kws[x])
                /\ q # "will the lakers win the nba finals?"

(***************************************************************************)
(* Properties of the validator.                                            *)
(***************************************************************************)
\* C19: in validate_data_integrity a check that raises is caught, every
\* remaining check still runs, and the raising check counts as failed: the
\* result is true only if every key-uniqueness check and every orphan check
\* ran to completion and found no violation.
C19_RaisingCheckCountsAsFailed ==
    vpc = VDone =>
        /\ Len(checks) = Len(unique_id_checks) + Len(orphan_checks)
        /\ all_valid =>
               \A i \in 1..Len(checks) :
                   ~checks[i].raised /\ ~checks[i].found

\* C20: when main has returned, its exit code is 0 only if every phase that
\* ran (extraction, transformation, validation, load) succeeded, and it is 1
\* if any of them failed.
PhaseFailed ==
    \/ phases.extract = "failed"
    \/ phases.transform = "failed"
    \/ phases.validate = "failed"
    \/ exc

C20_ExitCodeReportsEveryPhase ==
    mpc = "done" =>
        /\ exit_code = "0" => ~PhaseFailed
        /\ PhaseFailed => exit_code = "1"

\* C24: an entity cleaner never aborts a batch: it returns a frame, whatever
\* value a field holds and whichever column the batch lacks, and the frame
\* of the events and of the markets cleaner holds one row for every id of
\* the batch.
C24_CleanersNeverAbort ==
    call.fn \in Cleaners =>
        /\ ~IsRaise(call.result)
        /\ (call.fn # "validate_and_clean_gaming_markets"
                /\ "id" \in call.arg.cols =>
               {call.result.rows[i].id : i \in 1..Len(call.result.rows)}
                   = {call.arg.rows[i].id : i \in 1..Len(call.arg.rows)})

\* C25: create_schema_gaming drops the nine managed tables before it creates
\* any, the fact tables before the dimension tables and every table before
\* the tables it references, and creates a table after the tables it
\* references; a successful call leaves the nine tables, all empty except
\* dim_videojuego, which holds exactly the seeded catalog, whatever the
\* warehouse held before.
StatementAt(op, t) ==
    CHOOSE i \in 1..Len(SchemaStatements) :
        SchemaStatements[i] = [op |-> op, t |-> t]

SchemaCreated ==
    /\ hist.last.op = "create_schema_gaming"
    /\ hist.last.ok

C25_SchemaIsRebuilt ==
    /\ \A t \in TableNames :
           /\ \E i \in 1..Len(SchemaStatements) :
                  SchemaStatements[i] = [op |-> "drop", t |-> t]
           /\ \E i \in 1..Len(SchemaStatements) :
                  SchemaStatements[i] = [op |-> "create", t |-> t]
    /\ \A t, u \in TableNames : StatementAt("drop", t) < StatementAt("create", u)
    /\ \A f \in FactTables, d \in TableNames \ FactTables :
           StatementAt("drop", f) < StatementAt("drop", d)
    /\ \A t \in TableNames :
           \A fk \in ForeignKeys(t) :
               /\ StatementAt("drop", t) < StatementAt("drop", fk.ref)
               /\ StatementAt("create", fk.ref) < StatementAt("create", t)
    /\ SchemaCreated =>
           /\ \A t \in TableNames :
                  /\ dbC[t].exists
                  /\ t # "dim_videojuego" => dbC[t].rows = <<>>
           /\ Len(dbC["dim_videojuego"].rows) = Len(juegos)
           /\ \A i \in 1..Len(juegos) :
                  dbC["dim_videojuego"].rows[i].nombre_juego = juegos[i]

C25_Witness ==
    /\ SchemaCreated
    /\ hist.before["fact_metricas_gaming"].rows # <<>>
    /\ hist.before["dim_evento_gaming"].rows # <<>>
    /\ dbC["fact_metricas_gaming"] = EmptyTable

\* C26: in load_all no load runs before create_schema_gaming has committed,
\* and every dimension load has committed before a load that references it
\* starts: whenever a load is about to start nothing is left uncommitted,
\* the loads it depends on were called before it and succeeded, and the
\* fact rows the connection sees reference committed dimension rows only.
LoadPositions ==
    {"serie", "evento", "tag", "mercado", "rel_me", "rel_et", "metricas"}

LoadsBefore(op) ==
    CASE op = "load_dim_evento_gaming" -> {"load_dim_serie_gaming"}
      [] op = "load_relations_mercado_evento_gaming" ->
             {"load_dim_mercado_gaming", "load_dim_evento_gaming"}
      [] op = "load_relations_evento_tag_gaming" ->
             {"load_dim_evento_gaming", "load_dim_tag_gaming"}
      [] op = "load_fact_metricas_gaming" -> {"load_dim_mercado_gaming"}
      [] OTHER -> {}

ReferencesCommitted ==
    \A f \in FactTables :
        \A i \in 1..Len(dbW[f].rows) :
            \A fk \in ForeignKeys(f) :
                \E j \in 1..Len(dbC[fk.ref].rows) :
                    dbC[fk.ref].rows[j][fk.refcol] = dbW[f].rows[i][fk.col]

C26_DimensionsCommitBeforeFacts ==
    /\ lpc \in LoadPositions =>
           /\ dbW = dbC
           /\ hist.steps # <<>>
           /\ hist.steps[1] = [op |-> "create_schema_gaming", ok |-> TRUE]
    /\ \A k \in 1..Len(hist.steps) :
           /\ hist.steps[k].op = "create_schema_gaming" => k = 1
           /\ \A j \in 1..Len(hist.steps) :
                  hist.steps[j].op \in LoadsBefore(hist.steps[k].op)
                      => j < k /\ hist.steps[j].ok
    /\ ReferencesCommitted

C26_Witness ==
    /\ lpc = "finally"
    /\ ~exc
    /\ Len(hist.steps) = 8
    /\ dbC["dim_serie_gaming"].rows # <<>>
    /\ dbC["fact_evento_tag_gaming"].rows # <<>>
    /\ dbC["fact_metricas_gaming"].rows # <<>>

\* C27: in a pipeline run the validator runs after the loader has finished
\* loading, never before it, and a run that completes has executed the
\* validator's checks.
C27_ValidatorRunsAfterLoad ==
    /\ phases.validate # "none" => hist.runs > 0
    /\ mpc = "done" /\ exit_code = "0" => vpc = VDone /\ checks # <<>>

\* C28: on every path through load_all (completion, the early return on an
\* empty gaming batch, an exception of the schema creation or of a load) the
\* connection is closed when load_all has returned or raised, it is open
\* wherever load_all issues statements, and nothing is issued after the
\* close.
InLoadAll == lpc \in {"transform", "schema", "finally"} \cup LoadPositions

C28_ConnectionClosedOnEveryPath ==
    /\ lpc = "return" /\ conn # "none" => conn = "closed"
    /\ InLoadAll => conn = "open"
    /\ conn = "closed" => lpc \in {"return", "start"}

C28_Witness ==
    /\ lpc = "return"
    /\ conn = "closed"
    /\ exc
    /\ Len(hist.steps) >= 2
    /\ ~hist.steps[Len(hist.steps)].ok

\* C29: when the gaming pipeline yields an empty batch, load_all goes
\* straight to its return without raising and without a statement on the
\* warehouse, whose content stays what it was, and run_loader reports the
\* load as successful.
C29_EmptyBatchLeavesWarehouse ==
    [][/\ lpc = "transform" /\ df'.rows = <<>> =>
              /\ lpc' = "finally"
              /\ ~exc'
              /\ dbC' = dbC /\ dbW' = dbW
              /\ hist'.steps = <<>>
       /\ lpc = "finally" /\ df.rows = <<>> =>
              /\ lpc' = "return"
              /\ ~exc'
              /\ dbC' = dbC
       /\ lpc = "return" /\ conn = "closed" /\ df.rows = <<>> =>
              /\ exit_code' = "0"
              /\ dbC' = dbC]_vars

C29_Witness ==
    /\ lpc = "start"
    /\ hist.runs = 1
    /\ exit_code = "0"
    /\ df.rows = <<>>
    /\ snapshot.markets.frame.rows # <<>>
    /\ hist.steps = <<>>
    /\ dbC = LoadedWarehouse(PriorSnapshot)
    /\ dbC["fact_metricas_gaming"].rows # <<>>

\* C30: every table validate_schema expects or validate_data_integrity
\* queries is created by create_schema_gaming, and so is present in the
\* warehouse once load_all has loaded a batch and returned.
LoadAllSucceeded ==
    /\ lpc = "start"
    /\ hist.runs > 0
    /\ exit_code = "0"
    /\ Len(hist.steps) = 8

C30_ValidatorTablesAreCreated ==
    LoadAllSucceeded =>
        \A t \in Range(expected_tables) \cup QueriedTables :
            /\ t \in CreatedTables
            /\ TableInSchema(dbC, t)

================================================================
